---- MODULE Spec2Model ----
(***************************************************************************)
(* WexDownloader server (v4.0): the shared Playwright browser, the         *)
(* /processreport pipeline (processDownloadAsync), /restart-browser, the   *)
(* retry loops and the URL extraction, as a state machine.                 *)
(*                                                                         *)
(* JavaScript runs one callback at a time: the code between two awaits of  *)
(* an external operation is one atomic action.  A handler's pc names the   *)
(* await it is suspended at; the action "XReturn" is the continuation that *)
(* runs when that operation settles, with the outcome (resolve / reject)   *)
(* chosen by the environment.                                              *)
(***************************************************************************)
EXTENDS Integers, Sequences, FiniteSets, TLC

VARIABLES
    MAX_RETRIES,        \* parseInt(process.env.MAX_RETRIES || '3')
    MISSIVE_API_KEY,    \* TRUE iff process.env.MISSIVE_API_KEY is set
    FUELREPORTWEBHOOK,  \* TRUE iff process.env.FUELREPORTWEBHOOK is set
    EFSREPORTWEBHOOK,   \* TRUE iff process.env.EFSREPORTWEBHOOK is set
    inbox,              \* the answers the message API may give
    globalBrowser,      \* 0 is null, otherwise the id of a launched browser
    browsers,           \* browsers[id]: state of the id-th chromium.launch()
    startup,            \* the app.listen callback
    restart,            \* restart[k]: the k-th POST /restart-browser handler
    runs,               \* runs[r]: the r-th processDownloadAsync invocation
    budget,             \* failures the environment may still inject
    process,            \* the Node process and its SIGINT / SIGTERM handlers
    messageData,        \* input of the extractDownloadUrl harness
    extracted,          \* result of the extractDownloadUrl harness
    routeName,          \* input of the determineWebhookConfig harness
    routed,             \* result of the determineWebhookConfig harness
    call                \* one downloadWithRetry call, operation by operation

vars == <<MAX_RETRIES, MISSIVE_API_KEY, FUELREPORTWEBHOOK, EFSREPORTWEBHOOK, inbox,
          globalBrowser, browsers, startup, restart, runs, budget, process,
          messageData, extracted, routeName, routed, call>>

config == <<MAX_RETRIES, MISSIVE_API_KEY, FUELREPORTWEBHOOK, EFSREPORTWEBHOOK, inbox>>
harness == <<messageData, extracted, routeName, routed, call>>

(***************************************************************************)
(* Bounds of the model.                                                    *)
(***************************************************************************)
NumRuns == 2            \* pipeline runs that may be in flight together
NumRestarts == 2        \* POST /restart-browser requests
MaxRetriesBound == 2    \* MAX_RETRIES ranges over 0..MaxRetriesBound
MaxFaults == 2          \* failures the environment injects in one behaviour
MaxFrags == 3           \* fragments a message body is composed of
MaxPasses == 2          \* executions of the finally block on one run
MaxSignals == 2         \* SIGINT / SIGTERM deliveries

Runs == 1..NumRuns
Restarts == 1..NumRestarts


(***************************************************************************)
(* Text.  A JavaScript string is the sequence of its characters.           *)
(***************************************************************************)
UpperCase == <<"A", "B", "C", "D", "E", "F", "G", "H", "I", "J", "K", "L", "M",
               "N", "O", "P", "Q", "R", "S", "T", "U", "V", "W", "X", "Y", "Z">>
LowerCase == <<"a", "b", "c", "d", "e", "f", "g", "h", "i", "j", "k", "l", "m",
               "n", "o", "p", "q", "r", "s", "t", "u", "v", "w", "x", "y", "z">>

ToLower(c) ==
    IF \E i \in 1..26 : UpperCase[i] = c
    THEN LowerCase[CHOOSE i \in 1..26 : UpperCase[i] = c]
    ELSE c

\* mutant: the file name compared as it is
keepCase(s) == s
\* String.prototype.toLowerCase
toLowerCase(s) == [i \in 1..Len(s) |-> ToLower(s[i])]

\* the literal lit occurs in s at index i
StartsAt(s, lit, i) ==
    /\ i >= 1
    /\ i + Len(lit) - 1 <= Len(s)
    /\ \A k \in 1..Len(lit) : s[i + k - 1] = lit[k]

\* the same under the regular expression flag i (lit is given in lower case)
StartsAtCI(s, lit, i) ==
    /\ i >= 1
    /\ i + Len(lit) - 1 <= Len(s)
    /\ \A k \in 1..Len(lit) : ToLower(s[i + k - 1]) = lit[k]

\* String.prototype.includes
includes(s, lit) == \E i \in 1..Len(s) : StartsAt(s, lit, i)

Min(S) == CHOOSE x \in S : \A y \in S : x <= y
Max(S) == CHOOSE x \in S : \A y \in S : x >= y

\* the character class \s, as far as message bodies use it
Whitespace == {" ", "\n", "\t"}
\* the character class [^\s"'<>]
UrlChar(c) == c \notin Whitespace \cup {"\"", "'", "<", ">"}

\* index of the first double quote of s at or after i, 0 when there is none
NextQuote(s, i) ==
    LET Q == {j \in i..Len(s) : s[j] = "\""}
    IN  IF Q = {} THEN 0 ELSE Min(Q)

\* last index e >= a - 1 such that s[a..e] are all characters of [^\s"'<>]
RunEnd(s, a) ==
    LET Stop == {j \in a..Len(s) : ~UrlChar(s[j])}
    IN  IF Stop = {} THEN Len(s) ELSE Min(Stop) - 1

LitHref ==
    <<"h", "r", "e", "f", "=", "\"">>
LitDownloadAt ==
    <<"d", "o", "w", "n", "l", "o", "a", "d", " ", "a", "t", ":">>
LitAnchor ==
    <<"<", "a">>
LitFleetOne ==
    <<"h", "t", "t", "p", "s", ":", "/", "/", "m", "a", "n", "a", "g", "e",
    ".", "f", "l", "e", "e", "t", "o", "n", "e", ".", "c", "o", "m", "/">>
LitGetJobFile ==
    <<"g", "e", "t", "j", "o", "b", "f", "i", "l", "e">>
LitHttp ==
    <<"h", "t", "t", "p">>
LitColonSlashes ==
    <<":", "/", "/">>
LitPdf ==
    <<".", "p", "d", "f">>
LitAmp ==
    <<"&", "a", "m", "p", ";">>
LitMarker ==
    <<"g", "r", "a", "n", "d", "t", "o", "t", "a", "l", "r", "e", "p", "o",
    "r", "t">>

(***************************************************************************)
(* extractDownloadUrl: the four patterns.  Each matcher returns the        *)
(* sequence that String.prototype.match returns: <<>> for null; for a      *)
(* pattern without the g flag <<whole match, group 1>>; for a pattern with *)
(* the g flag every non-overlapping whole match, left to right.            *)
(***************************************************************************)

\* /href="([^"]+)"/ : [^"]+ runs up to the next double quote, which must
\* exist and leave at least one character in the group
HrefAt(body, i) ==
    /\ StartsAt(body, LitHref, i)
    /\ NextQuote(body, i + 6) > i + 6

matchHref(body) ==
    LET C == {i \in 1..Len(body) : HrefAt(body, i)}
    IN  IF C = {} THEN <<>>
        ELSE LET i == Min(C)
                 k == NextQuote(body, i + 6)
             IN  <<SubSeq(body, i, k), SubSeq(body, i + 6, k - 1)>>

\* first index at or after j that holds no whitespace (Len + 1 at the end)
SkipSpace(body, j) ==
    LET N == {m \in j..Len(body) : body[m] \notin Whitespace}
    IN  IF N = {} THEN Len(body) + 1 ELSE Min(N)

\* /Download at:\s*<a[^>]*href="([^"]+)"/i : the positions p at which the
\* href of the anchor opened after the label at i can start
LabeledHrefs(body, i) ==
    LET a == SkipSpace(body, i + 12)
    IN  IF ~(StartsAtCI(body, LitDownloadAt, i) /\ StartsAtCI(body, LitAnchor, a))
        THEN {}
        ELSE {p \in (a + 2)..Len(body) :
                /\ \A m \in (a + 2)..(p - 1) : body[m] # ">"
                /\ StartsAtCI(body, LitHref, p)
                /\ NextQuote(body, p + 6) > p + 6}

matchLabeled(body) ==
    LET C == {i \in 1..Len(body) : LabeledHrefs(body, i) # {}}
    IN  IF C = {} THEN <<>>
        ELSE LET i == Min(C)
                 p == Max(LabeledHrefs(body, i))   \* [^>]* is greedy
                 k == NextQuote(body, p + 6)
             IN  <<SubSeq(body, i, k), SubSeq(body, p + 6, k - 1)>>

\* /https:\/\/manage\.fleetone\.com\/[^\s"'<>]+getJobFile[^\s"'<>]+/gi :
\* end of the match that starts at i, 0 when none starts there
GetJobFileEnd(body, i) ==
    LET a == i + Len(LitFleetOne)
        e == RunEnd(body, a)
    IN  IF /\ StartsAtCI(body, LitFleetOne, i)
           /\ \E q \in (a + 1)..(e - 10) : StartsAtCI(body, LitGetJobFile, q)
        THEN e ELSE 0

\* /(https?:\/\/[^\s"'<>]+\.pdf[^\s"'<>]*)/gi : end of the match that
\* starts at i, 0 when none starts there
PdfEnd(body, i) ==
    LET s == IF StartsAtCI(body, <<"s">>, i + 4) THEN 1 ELSE 0
        a == i + 4 + s + 3
        e == RunEnd(body, a)
    IN  IF /\ StartsAtCI(body, LitHttp, i)
           /\ StartsAtCI(body, LitColonSlashes, i + 4 + s)
           /\ \E q \in (a + 1)..(e - 3) : StartsAtCI(body, LitPdf, q)
        THEN e ELSE 0

\* every non-overlapping match of a g pattern, scanning from index from
RECURSIVE globalMatches(_, _, _)
globalMatches(End(_, _), body, from) ==
    LET C == {i \in from..Len(body) : End(body, i) # 0}
    IN  IF C = {} THEN <<>>
        ELSE LET i == Min(C)
                 e == End(body, i)
             IN  <<SubSeq(body, i, e)>> \o globalMatches(End, body, e + 1)

matchGetJobFile(body) == globalMatches(GetJobFileEnd, body, 1)
matchPdf(body) == globalMatches(PdfEnd, body, 1)

\* url.replace(/&amp;/g, '&')
RECURSIVE decodeAmp(_)
decodeAmp(url) ==
    IF url = <<>> THEN <<>>
    ELSE IF StartsAt(url, LitAmp, 1)
         THEN <<"&">> \o decodeAmp(SubSeq(url, 6, Len(url)))
         ELSE <<Head(url)>> \o decodeAmp(Tail(url))

\* matches[1] || matches[0]
FirstTruthy(matches) ==
    IF Len(matches) >= 2 /\ matches[2] # <<>> THEN matches[2] ELSE matches[1]

\* mutant: the .pdf pattern tried first
patternsPdfFirst(body) == <<matchPdf(body), matchLabeled(body), matchGetJobFile(body)>>

\* const patterns = [ ... ] : the fallback patterns, in the order tried
patterns(body) == <<matchLabeled(body), matchGetJobFile(body), matchPdf(body)>>

\* the body the response carries, '' when it carries none
bodyOf(md) ==
    IF md.messagesKind = "object" THEN md.messagesBody
    ELSE IF md.messagesKind = "array" THEN md.messagesBody
    ELSE IF md.messageBody # <<>> THEN md.messageBody
    ELSE md.rootBody

Returned(url) == [ok |-> TRUE, url |-> url, error |-> "none"]
Thrown(e) == [ok |-> FALSE, url |-> <<>>, error |-> e]

extractDownloadUrl(md) ==
    LET body == bodyOf(md)
        hrefMatch == matchHref(body)
        ps == patterns(body)
        hit == {n \in 1..Len(ps) : ps[n] # <<>>}
    IN  IF body = <<>> THEN Thrown("NoBody")
        ELSE IF hrefMatch # <<>> /\ hrefMatch[2] # <<>>
             THEN Returned(decodeAmp(hrefMatch[2]))
        ELSE IF hit # {}
             THEN Returned(decodeAmp(FirstTruthy(ps[Min(hit)])))
        ELSE Thrown("NoDownloadURL")

(***************************************************************************)
(* Message bodies: every concatenation of at most MaxFrags fragments.      *)
(***************************************************************************)
\* <a href="https://x/y?a=1&amp;b=2">Download</a>
FragAnchor ==
    <<"<", "a", " ", "h", "r", "e", "f", "=", "\"", "h", "t", "t", "p", "s",
    ":", "/", "/", "x", "/", "y", "?", "a", "=", "1", "&", "a", "m", "p",
    ";", "b", "=", "2", "\"", ">", "D", "o", "w", "n", "l", "o", "a", "d",
    "<", "/", "a", ">">>
\*  see also https://x/report.pdf
FragSeeAlsoPdf ==
    <<" ", "s", "e", "e", " ", "a", "l", "s", "o", " ", "h", "t", "t", "p",
    "s", ":", "/", "/", "x", "/", "r", "e", "p", "o", "r", "t", ".", "p",
    "d", "f">>
\* Download at: <A HREF="https://x/z?k=1&amp;m=2">
FragLabeled ==
    <<"D", "o", "w", "n", "l", "o", "a", "d", " ", "a", "t", ":", " ", "<",
    "A", " ", "H", "R", "E", "F", "=", "\"", "h", "t", "t", "p", "s", ":",
    "/", "/", "x", "/", "z", "?", "k", "=", "1", "&", "a", "m", "p", ";",
    "m", "=", "2", "\"", ">">>
\*  https://manage.fleetone.com/a/getJobFile?id=1 
FragJobFile ==
    <<" ", "h", "t", "t", "p", "s", ":", "/", "/", "m", "a", "n", "a", "g",
    "e", ".", "f", "l", "e", "e", "t", "o", "n", "e", ".", "c", "o", "m",
    "/", "a", "/", "g", "e", "t", "J", "o", "b", "F", "i", "l", "e", "?",
    "i", "d", "=", "1", " ">>
\*  https://manage.fleetone.com/b/getJobFile?f=r.pdf&amp;id=2 
FragJobFilePdf ==
    <<" ", "h", "t", "t", "p", "s", ":", "/", "/", "m", "a", "n", "a", "g",
    "e", ".", "f", "l", "e", "e", "t", "o", "n", "e", ".", "c", "o", "m",
    "/", "b", "/", "g", "e", "t", "J", "o", "b", "F", "i", "l", "e", "?",
    "f", "=", "r", ".", "p", "d", "f", "&", "a", "m", "p", ";", "i", "d",
    "=", "2", " ">>
\*  http://y/b.PDF?x=1 
FragUpperPdf ==
    <<" ", "h", "t", "t", "p", ":", "/", "/", "y", "/", "b", ".", "P", "D",
    "F", "?", "x", "=", "1", " ">>
\* <a href="/files/latest">
FragRelative ==
    <<"<", "a", " ", "h", "r", "e", "f", "=", "\"", "/", "f", "i", "l", "e",
    "s", "/", "l", "a", "t", "e", "s", "t", "\"", ">">>
\*  no link here 
FragText ==
    <<" ", "n", "o", " ", "l", "i", "n", "k", " ", "h", "e", "r", "e", " ">>

\* the URL the anchor of FragAnchor names, decoded
UrlAnchorDecoded ==
    <<"h", "t", "t", "p", "s", ":", "/", "/", "x", "/", "y", "?", "a", "=",
    "1", "&", "b", "=", "2">>
\* the URL the anchor of FragLabeled names, decoded
UrlLabeledDecoded ==
    <<"h", "t", "t", "p", "s", ":", "/", "/", "x", "/", "z", "?", "k", "=",
    "1", "&", "m", "=", "2">>

Fragments == {FragAnchor, FragSeeAlsoPdf, FragLabeled, FragJobFile,
              FragJobFilePdf, FragUpperPdf, FragRelative, FragText}

RECURSIVE Bodies(_)
Bodies(n) ==
    IF n = 0 THEN {<<>>}
    ELSE LET B == Bodies(n - 1)
         IN  B \cup {b \o f : b \in B, f \in Fragments}

\* response.data of the message API: { messages: { body, conversation } },
\* { messages: [ { body } ] }, { message: { body } } or { body }
Response(kind, body, conv) ==
    [messagesKind |-> IF kind \in {"object", "array", "emptyArray"}
                      THEN kind ELSE "absent",
     messagesBody |-> IF kind \in {"object", "array"} THEN body ELSE <<>>,
     messageBody |-> IF kind = "message" THEN body ELSE <<>>,
     rootBody |-> IF kind = "root" THEN body ELSE <<>>,
     conversationId |-> IF kind = "object" THEN conv ELSE ""]

\* the responses the message API gives to a pipeline run
MsgAnchor == Response("object", FragAnchor \o FragSeeAlsoPdf, "conv-api")
\* the anchor message, the API naming no conversation
MsgAnchorOnly == Response("object", FragAnchor \o FragSeeAlsoPdf, "")
MsgNoUrl == Response("object", FragText, "")
MsgEmpty == Response("emptyArray", <<>>, "")
Messages == {MsgAnchor, MsgNoUrl, MsgEmpty}

(***************************************************************************)
(* The environment.  An awaited operation resolves (ok) or rejects.  When  *)
(* the state leaves it no way to resolve, it rejects; otherwise a          *)
(* rejection is a fault the environment injects, as long as its budget of   *)
(* faults lasts.  The attempts of the two retry loops are bounded by          *)
(* MAX_RETRIES and are not counted as faults.                              *)
(***************************************************************************)
Settles(ok, possible) == IF ok THEN possible ELSE (~possible \/ budget > 0)
BudgetAfter(ok, possible) == IF ~ok /\ possible THEN budget - 1 ELSE budget

(***************************************************************************)
(* The shared browser.                                                     *)
(***************************************************************************)
BrowserStates == {"launching", "open", "closing", "closed", "failed"}

\* launched and not closed
Live(b) == b # 0 /\ browsers[b] \in {"open", "closing"}
\* able to serve newContext / newPage / a download
Serving(b) == b # 0 /\ browsers[b] = "open"

\* callbacks run in a process that has not exited
Alive == process.pc = "running"

\* initBrowser, from the call to its first await: with globalBrowser = gb it
\* either returns gb at once or calls chromium.launch and suspends
initBrowser(gb, bs) ==
    IF gb = 0
    THEN [launch |-> TRUE, b |-> Len(bs) + 1, browsers |-> Append(bs, "launching")]
    ELSE [launch |-> FALSE, b |-> gb, browsers |-> bs]

\* mutant: the reference is assigned whether or not the launch resolved
LaunchAssignsAnyway(b, ok) ==
    /\ Settles(ok, TRUE)
    /\ budget' = BudgetAfter(ok, TRUE)
    /\ browsers' = [browsers EXCEPT ![b] = IF ok THEN "open" ELSE "failed"]
    /\ globalBrowser' = b
\* initBrowser, from the settling of chromium.launch: globalBrowser = await ...
LaunchSettles(b, ok) ==
    /\ Settles(ok, TRUE)
    /\ budget' = BudgetAfter(ok, TRUE)
    /\ browsers' = [browsers EXCEPT ![b] = IF ok THEN "open" ELSE "failed"]
    /\ globalBrowser' = IF ok THEN b ELSE globalBrowser

\* browser.close(), from the call to its await
CloseCalled(bs, b) == [bs EXCEPT ![b] = IF @ = "open" THEN "closing" ELSE @]

(***************************************************************************)
(* app.listen callback: ensurePersistentDir(), then initBrowser().         *)
(***************************************************************************)
StartupDirReturn ==
    /\ Alive
    /\ startup.pc = "ensureDir"
    /\ \E ok \in BOOLEAN :
        /\ Settles(ok, TRUE)
        /\ budget' = BudgetAfter(ok, TRUE)
        /\ IF ok
           THEN LET ib == initBrowser(globalBrowser, browsers)
                IN  /\ browsers' = ib.browsers
                    /\ startup' = [pc |-> IF ib.launch THEN "launch" ELSE "ready",
                                   b |-> ib.b]
           ELSE /\ startup' = [startup EXCEPT !.pc = "failed"]
                /\ UNCHANGED browsers
    /\ UNCHANGED <<config, process, globalBrowser, restart, runs, harness>>

StartupLaunchReturn ==
    /\ Alive
    /\ startup.pc = "launch"
    /\ \E ok \in BOOLEAN :
        /\ LaunchSettles(startup.b, ok)
        /\ startup' = [startup EXCEPT !.pc = IF ok THEN "ready" ELSE "failed"]
    /\ UNCHANGED <<config, process, restart, runs, harness>>

(***************************************************************************)
(* POST /restart-browser.                                                  *)
(***************************************************************************)
RestartRequest(k) ==
    /\ Alive
    /\ restart[k].pc = "idle"
    /\ \A j \in 1..(k - 1) : restart[j].pc # "idle"
    /\ IF globalBrowser # 0
       THEN /\ browsers' = CloseCalled(browsers, globalBrowser)
            /\ restart' = [restart EXCEPT ![k] = [pc |-> "closing",
                                                  b |-> globalBrowser, status |-> 0]]
       ELSE LET ib == initBrowser(globalBrowser, browsers)
            IN  /\ browsers' = ib.browsers
                /\ restart' = [restart EXCEPT ![k] = [pc |-> "launch",
                                                      b |-> ib.b, status |-> 0]]
    /\ UNCHANGED <<config, process, globalBrowser, startup, runs, budget, harness>>

\* a signal handler that awaits the close of b continues in the same tick as
\* the other awaiters of that close: process.exit(0)
AfterClose(proc, b) ==
    IF b \in proc.awaiting THEN [proc EXCEPT !.pc = "exited"] ELSE proc

\* await globalBrowser.close() returns; globalBrowser = null; initBrowser()
RestartCloseReturn(k) ==
    /\ Alive
    /\ restart[k].pc = "closing"
    /\ LET closed == [browsers EXCEPT ![restart[k].b] = "closed"]
           ib == initBrowser(0, closed)
       IN  /\ globalBrowser' = 0
           /\ browsers' = ib.browsers
           /\ restart' = [restart EXCEPT ![k] = [pc |-> "launch", b |-> ib.b,
                                                 status |-> 0]]
           /\ process' = AfterClose(process, restart[k].b)
    /\ UNCHANGED <<config, startup, runs, budget, harness>>

RestartLaunchReturn(k) ==
    /\ Alive
    /\ restart[k].pc = "launch"
    /\ \E ok \in BOOLEAN :
        /\ LaunchSettles(restart[k].b, ok)
        /\ restart' = [restart EXCEPT ![k] = [pc |-> "done", b |-> @.b,
                                              status |-> IF ok THEN 200 ELSE 500]]
    /\ UNCHANGED <<config, process, startup, runs, harness>>

(***************************************************************************)
(* One pipeline run: POST /processreport and processDownloadAsync.         *)
(***************************************************************************)
NameGrandTotal ==
    <<"G", "r", "a", "n", "d", "T", "o", "t", "a", "l", "R", "e", "p", "o",
    "r", "t", "_", "2", "0", "2", "4", ".", "p", "d", "f">>
NameInvoice ==
    <<"I", "n", "v", "o", "i", "c", "e", "_", "2", "0", "2", "4", ".", "p",
    "d", "f">>
\* download.suggestedFilename() of the downloads the runs see
FileNames == {NameGrandTotal, NameInvoice}

determineWebhookConfig(fileName) ==
    LET fuel == includes(toLowerCase(fileName), LitMarker)
        webhookUrl == IF fuel THEN FUELREPORTWEBHOOK ELSE EFSREPORTWEBHOOK
        reportType == IF fuel THEN "FuelReport" ELSE "EFSReport"
    IN  [ok |-> webhookUrl # "", webhookUrl |-> webhookUrl,
         reportType |-> reportType]

\* req.body of POST /processreport, as the handler reads it: requestData is
\* truthy, latest_message.id, conversation.id, webhookUrl ("" when absent)
RequestBody(data, messageId, conversationId, webhookUrl) ==
    [data |-> data, messageId |-> messageId, conversationId |-> conversationId,
     webhookUrl |-> webhookUrl]
CallerHook == "https://caller/hook"
NoRequest == RequestBody(FALSE, "", "", "")
ReqEmpty == NoRequest
ReqNoId == RequestBody(TRUE, "", "conv-req", CallerHook)
ReqPlain == RequestBody(TRUE, "msg-1", "", "")
ReqWithHook == RequestBody(TRUE, "msg-1", "conv-req", CallerHook)

\* req.body as express.json() hands it over, an object or an array: array and
\* first say whether it is an array and whether req.body[0] is truthy;
\* latest and conversation are latest_message.id and conversation.id of
\* requestData, nested and nestedConversation those of requestData.body
\* ("" where the path leads to nothing)
Payload(array, first, latest, nested, conversation, nestedConversation, webhookUrl) ==
    [array |-> array, first |-> first, latest |-> latest, nested |-> nested,
     conversation |-> conversation, nestedConversation |-> nestedConversation,
     webhookUrl |-> webhookUrl]
PayEmptyArray == Payload(TRUE, FALSE, "", "", "", "", "")
PayEmptyObject == Payload(FALSE, FALSE, "", "", "", "", "")
PayNoId == Payload(FALSE, FALSE, "", "", "conv-req", "", CallerHook)
PayTop == Payload(FALSE, FALSE, "msg-1", "", "", "", "")
PayBoth == Payload(TRUE, TRUE, "msg-1", "msg-2", "", "", "")
PayNested == Payload(TRUE, TRUE, "", "msg-1", "", "conv-req", CallerHook)
Payloads == {PayEmptyArray, PayEmptyObject, PayNoId, PayTop, PayBoth, PayNested}

\* const requestData = Array.isArray(req.body) ? req.body[0] : req.body, as
\* if (!requestData) reads it: an object is truthy
requestData(body) == IF body.array THEN body.first ELSE TRUE

\* the handler's reading of the request: requestData, messageId,
\* conversationId (each from the top level, else from under body) and
\* requestData.webhookUrl
readRequest(body) ==
    IF ~requestData(body) THEN NoRequest
    ELSE RequestBody(TRUE,
                     IF body.latest # "" THEN body.latest ELSE body.nested,
                     IF body.conversation # "" THEN body.conversation
                     ELSE body.nestedConversation,
                     body.webhookUrl)

Requests == {readRequest(body) : body \in Payloads}

\* res.status(400).json({ error, details })
BadRequest(error) == [status |-> 400, error |-> error]
\* res.status(200).json({ success, message, messageId, conversationId })
Acknowledged(req) ==
    [status |-> 200, messageId |-> req.messageId,
     conversationId |-> IF req.conversationId = "" THEN "null"
                        ELSE req.conversationId]

\* the local variables of processDownloadAsync, the disk and browser objects
\* they name, and counters of what the run has done
NewRun ==
    [pc |-> "idle",
     request |-> NoRequest,    \* requestData, messageId, conversationId
     responses |-> <<>>,       \* what the handler has sent on res
     started |-> FALSE,        \* processDownloadAsync has been called
     responsesAtStart |-> 0,   \* responses sent when it was called
     fetches |-> 0,            \* axios.get calls issued to the message API
     postedTo |-> {},          \* destinations of the axios.post calls
     posted |-> {},            \* the forms of the axios.post calls
     conversationId |-> "",    \* parameter conversationId ("" is undefined)
     apiConversationId |-> "", \* messages.conversation.id of the API's answer
     cleaning |-> FALSE,       \* the finally block has been entered
     unhandled |-> FALSE,      \* the promise rejected and no handler took it
     browser |-> 0,            \* const browser
     tempDir |-> FALSE,        \* tempDir is assigned
     dirExists |-> FALSE,      \* the directory tempDir names exists
     files |-> {},             \* the files in it
     listing |-> <<>>,         \* files of fs.readdir still to unlink
     context |-> "undef",      \* undef: not assigned; else open / closed
     page |-> "undef",
     downloadPath |-> FALSE,   \* downloadPath is assigned
     fileName |-> <<>>,
     url |-> <<>>,             \* downloadUrl
     webhookUrl |-> "",
     reportType |-> "",
     retries |-> 0,            \* parameter of downloadWithRetry
     webhookRetries |-> 0,
     result |-> "none",        \* how the try block ended
     error |-> "none",
     escaped |-> FALSE,        \* the finally block threw
     rejected |-> {},          \* steps of the finally block that rejected
     dlAttempts |-> 0,         \* download attempts started
     dlFailures |-> 0,         \* download attempts failed
     posts |-> 0,              \* axios.post calls issued
     delivered |-> 0,          \* axios.post calls that resolved
     reported |-> [downloadRetries |-> 0, webhookRetries |-> 0],
                               \* the retry counts of the success lines
     delays |-> <<>>,          \* the setTimeout waits between attempts
     named |-> 0,              \* attempts the relay failure message names
     ctxCloses |-> 0,          \* times context.close() closed the context
     dirRemovals |-> 0,        \* times fs.rmdir removed the directory
     pass |-> 1,               \* executions of the finally block
     before |-> <<>>]          \* Resources at the start of a repeated pass

\* the run's context is open in a browser that has not been closed
ContextOpen(run) == run.context = "open" /\ Live(run.browser)
PageOpen(run) == run.page = "open" /\ Live(run.browser)

\* mutant: fs.readdir and fs.rmdir outside the try / catch
GuardedFilesOnly(step) == step \in {"unlink", "unlinkFile"}

\* the steps of the finally block that sit inside a try / catch
Guarded(step) == step \in {"unlink", "readdir", "unlinkFile", "rmdir"}

\* the finally block, from each of its four ifs to the next await
FinallyContext(run) ==
    IF run.context # "undef" THEN [run EXCEPT !.pc = "ctxClose"]
    ELSE [run EXCEPT !.pc = "done"]

\* mutant: the context is closed only where a page was opened
FinallyPageOnly(run) ==
    IF run.page # "undef" THEN [run EXCEPT !.pc = "pageClose"]
    ELSE [run EXCEPT !.pc = "done"]
FinallyPage(run) ==
    IF run.page # "undef" THEN [run EXCEPT !.pc = "pageClose"]
    ELSE FinallyContext(run)

FinallyDir(run) ==
    IF run.tempDir THEN [run EXCEPT !.pc = "readdir"] ELSE FinallyPage(run)

Finally(run) ==
    LET c == [run EXCEPT !.cleaning = TRUE]
    IN  IF c.downloadPath THEN [c EXCEPT !.pc = "unlink"] ELSE FinallyDir(c)

\* mutant: processDownloadAsync(...) called without .catch
Uncaught(run) == [run EXCEPT !.unhandled = TRUE]
\* processDownloadAsync(...).catch(error => { log }): the rejection is taken
Caught(run) == run

\* an error thrown inside the finally block: its remaining steps are skipped
\* and the promise of processDownloadAsync rejects
Escapes(run) == Caught([run EXCEPT !.pc = "done", !.escaped = TRUE])

\* a cleanup step failed: caught where the step is guarded
StepFailed(run, step, Continue(_)) ==
    LET f == [run EXCEPT !.rejected = @ \cup {step}]
    IN  IF Guarded(step) THEN Continue(f) ELSE Escapes(f)

\* mutant: a failure ends the run without the finally block
FailUncleaned(run, e) == [run EXCEPT !.result = "Failed", !.error = e, !.pc = "done"]
\* catch (error) { log } finally { ... }
Fail(run, e) == Finally([run EXCEPT !.result = "Failed", !.error = e])
\* `Download Retries: 0` and
\* `Webhook Retries: ${webhookRetries > 0 ? webhookRetries - 1 : 0}`
successReport(run) ==
    [downloadRetries |-> 0,
     webhookRetries |-> IF run.webhookRetries > 0 THEN run.webhookRetries - 1
                        ELSE 0]
\* the try block ran to its end
Succeed(run) ==
    Finally([run EXCEPT !.result = "Succeeded", !.reported = successReport(run)])

\* mutant: if (retries <= MAX_RETRIES)
DownloadRetryInclusive(retries) == retries <= MAX_RETRIES
\* mutant: one retry count for all runs, a retry is refused once any run has
\* failed MAX_RETRIES times
DownloadRetryShared(retries) ==
    retries < MAX_RETRIES /\ \A q \in Runs : runs[q].dlFailures < MAX_RETRIES
\* mutant: the retry is not bounded
DownloadRetryAlways(retries) == TRUE
\* if (retries < MAX_RETRIES)
DownloadRetryAllowed(retries) == retries < MAX_RETRIES
\* while (webhookRetries <= MAX_RETRIES)
RelayLoopCond(webhookRetries) == webhookRetries <= MAX_RETRIES
\* mutant: if (webhookRetries >= MAX_RETRIES) throw
RelayExhaustedEarly(webhookRetries) == webhookRetries >= MAX_RETRIES
\* if (webhookRetries > MAX_RETRIES) throw
RelayExhausted(webhookRetries) == webhookRetries > MAX_RETRIES
\* `Failed to send to webhook after ${MAX_RETRIES} attempts`
RelayFailureNames == MAX_RETRIES

\* downloadWithRetry, from its call to await downloadPromise: the listener
\* is armed, page.goto is issued and not awaited
StartAttempt(run, retries) ==
    [run EXCEPT !.pc = "download", !.retries = retries,
                !.dlAttempts = @ + 1]

\* const RETRY_DELAY = 2000
RETRY_DELAY == 2000
\* mutant: a delay that grows with the attempt number
BackoffGrows(attempt) == RETRY_DELAY * attempt
\* setTimeout(resolve, RETRY_DELAY) after the attempt-th attempt
BackoffDelay(attempt) == RETRY_DELAY
\* await new Promise(resolve => setTimeout(resolve, RETRY_DELAY)) on a leg,
\* after the attempt-th attempt of that leg
Backoff(run, leg, attempt, pc) ==
    [run EXCEPT !.pc = pc,
                !.delays = Append(@, [leg |-> leg, after |-> attempt,
                                      ms |-> BackoffDelay(attempt)])]

\* downloadWithRetry, catch (error)
AttemptFailed(run) ==
    LET f == [run EXCEPT !.dlFailures = @ + 1]
    IN  IF DownloadRetryAllowed(run.retries)
        THEN Backoff(f, "download", run.retries + 1, "backoff")
        ELSE Fail(f, "DownloadFailed")

\* mutant: the conversation of the inbound event wins when there is one
keepInbound(conversationId, md) ==
    IF conversationId # "" THEN conversationId ELSE md.conversationId
\* if (messageData?.messages?.conversation?.id) conversationId = that id
refineConversation(conversationId, md) ==
    IF md.conversationId # "" THEN md.conversationId ELSE conversationId

\* const formData = new FormData() and its four append calls
formData(run) ==
    [file |-> [bytes |-> "artifact", filename |-> run.fileName,
               contentType |-> "application/pdf"],
     type |-> run.reportType,
     conversationId |-> run.conversationId,
     messageId |-> run.request.messageId]

\* the webhook loop, from the while test to await axios.post; when the test
\* fails the loop is left with webhookResponse undefined, which line 711 reads
RelayLoop(run) ==
    IF RelayLoopCond(run.webhookRetries)
    THEN [run EXCEPT !.pc = "post", !.posts = @ + 1,
                     !.postedTo = @ \cup {run.webhookUrl},
                     !.posted = @ \cup {formData(run)}]
    ELSE Fail(run, "TypeError")

\* processDownloadAsync after initBrowser has returned b: the directory name
\* is chosen and fs.mkdir is awaited
AfterInitBrowser(run, b) ==
    [run EXCEPT !.browser = b, !.tempDir = TRUE, !.pc = "mkdir"]

\* res.status(...).json(...)
Respond(run, response) == [run EXCEPT !.responses = Append(@, response)]

\* mutant: axios.get issued although MISSIVE_API_KEY is not set
fetchUnchecked(run) == [run EXCEPT !.pc = "fetch", !.fetches = @ + 1]
\* fetchMissiveMessage, from its call to await axios.get
fetchMissiveMessage(run) ==
    IF MISSIVE_API_KEY = "" THEN Fail(run, "NotConfigured")
    ELSE [run EXCEPT !.pc = "fetch", !.fetches = @ + 1]

\* processDownloadAsync, from its call to its first await: webhookUrl is
\* taken from the request when it carries one
processDownloadAsync(run) ==
    fetchMissiveMessage([run EXCEPT !.started = TRUE,
                                    !.responsesAtStart = Len(run.responses),
                                    !.webhookUrl = run.request.webhookUrl,
                                    !.conversationId = run.request.conversationId])

\* mutant: the pipeline called before the response is sent
PipelineFirst(run) == Respond(processDownloadAsync(run), Acknowledged(run.request))
\* res.status(200).json(...); processDownloadAsync(...).catch(...)
Accept(run) == processDownloadAsync(Respond(run, Acknowledged(run.request)))

\* mutant: the request is accepted without the test of messageId
processreportUnchecked(run, req) ==
    LET got == [run EXCEPT !.request = req]
    IN  IF ~req.data
        THEN Respond([got EXCEPT !.pc = "rejected"],
                     BadRequest("Invalid request format"))
        ELSE Accept(got)
\* the handler of POST /processreport, from the request to its first await
processreport(run, req) ==
    LET got == [run EXCEPT !.request = req]
    IN  IF ~req.data
        THEN Respond([got EXCEPT !.pc = "rejected"],
                     BadRequest("Invalid request format"))
        ELSE IF req.messageId = ""
        THEN Respond([got EXCEPT !.pc = "rejected"],
                     BadRequest("Missing message ID"))
        ELSE Accept(got)

\* POST /processreport arrives
Request(r) ==
    /\ Alive
    /\ runs[r].pc = "idle"
    /\ \A j \in 1..(r - 1) : runs[j].pc # "idle"
    /\ \E req \in Requests : runs' = [runs EXCEPT ![r] = processreport(@, req)]
    /\ UNCHANGED <<config, process, globalBrowser, browsers, startup, restart, budget,
                   harness>>

\* axios.get settles; extractDownloadUrl; initBrowser is called
FetchReturn(r) ==
    /\ Alive
    /\ runs[r].pc = "fetch"
    /\ \/ /\ Settles(FALSE, TRUE)
          /\ budget' = BudgetAfter(FALSE, TRUE)
          /\ runs' = [runs EXCEPT ![r] = Fail(@, "UpstreamUnavailable")]
          /\ UNCHANGED browsers
       \/ \E md \in inbox :
            LET ex == extractDownloadUrl(md)
                ib == initBrowser(globalBrowser, browsers)
                got == [runs[r] EXCEPT
                           !.url = ex.url,
                           !.apiConversationId = md.conversationId,
                           !.conversationId = refineConversation(@, md)]
            IN  /\ UNCHANGED budget
                /\ IF ~ex.ok
                   THEN /\ runs' = [runs EXCEPT ![r] = Fail(@, ex.error)]
                        /\ UNCHANGED browsers
                   ELSE /\ browsers' = ib.browsers
                        /\ runs' = [runs EXCEPT ![r] =
                                      IF ib.launch
                                      THEN [got EXCEPT !.pc = "launch", !.browser = ib.b]
                                      ELSE AfterInitBrowser(got, ib.b)]
    /\ UNCHANGED <<config, process, globalBrowser, startup, restart, harness>>

\* chromium.launch settles inside the run's initBrowser call
LaunchReturn(r) ==
    /\ Alive
    /\ runs[r].pc = "launch"
    /\ \E ok \in BOOLEAN :
        /\ LaunchSettles(runs[r].browser, ok)
        /\ runs' = [runs EXCEPT ![r] =
                      IF ok THEN AfterInitBrowser(@, @.browser)
                      ELSE Fail([@ EXCEPT !.browser = 0], "LaunchFailed")]
    /\ UNCHANGED <<config, process, startup, restart, harness>>

\* fs.mkdir(tempDir) settles; browser.newContext is called
MkdirReturn(r) ==
    /\ Alive
    /\ runs[r].pc = "mkdir"
    /\ \E ok \in BOOLEAN :
        /\ Settles(ok, TRUE)
        /\ budget' = BudgetAfter(ok, TRUE)
        /\ runs' = [runs EXCEPT ![r] =
                      IF ok THEN [@ EXCEPT !.dirExists = TRUE, !.pc = "newContext"]
                      ELSE Fail(@, "MkdirFailed")]
    /\ UNCHANGED <<config, process, globalBrowser, browsers, startup, restart, harness>>

\* browser.newContext settles; context.newPage is called
NewContextReturn(r) ==
    /\ Alive
    /\ runs[r].pc = "newContext"
    /\ \E ok \in BOOLEAN :
        /\ Settles(ok, Serving(runs[r].browser))
        /\ budget' = BudgetAfter(ok, Serving(runs[r].browser))
        /\ runs' = [runs EXCEPT ![r] =
                      IF ok THEN [@ EXCEPT !.context = "open", !.pc = "newPage"]
                      ELSE Fail(@, "EngineUnavailable")]
    /\ UNCHANGED <<config, process, globalBrowser, browsers, startup, restart, harness>>

\* context.newPage settles; downloadWithRetry(page, downloadUrl, tempDir)
NewPageReturn(r) ==
    /\ Alive
    /\ runs[r].pc = "newPage"
    /\ \E ok \in BOOLEAN :
        /\ Settles(ok, ContextOpen(runs[r]) /\ Serving(runs[r].browser))
        /\ budget' = BudgetAfter(ok, ContextOpen(runs[r]) /\ Serving(runs[r].browser))
        /\ runs' = [runs EXCEPT ![r] =
                      IF ok THEN StartAttempt([@ EXCEPT !.page = "open"], 0)
                      ELSE Fail(@, "EngineUnavailable")]
    /\ UNCHANGED <<config, process, globalBrowser, browsers, startup, restart, harness>>

\* await downloadPromise settles: the download event, or the 30 s timeout
DownloadReturn(r) ==
    /\ Alive
    /\ runs[r].pc = "download"
    /\ \E ok \in BOOLEAN :
        /\ ok => PageOpen(runs[r]) /\ Serving(runs[r].browser)
        /\ runs' = [runs EXCEPT ![r] =
                      IF ok THEN [@ EXCEPT !.pc = "path"] ELSE AttemptFailed(@)]
    /\ UNCHANGED <<config, process, globalBrowser, browsers, startup, restart, budget,
                   harness>>

\* mutant: a webhookUrl of the request is kept as the destination
CallerDestination(run, cfg) ==
    IF run.webhookUrl # "" THEN run.webhookUrl ELSE cfg.webhookUrl
\* webhookUrl = webhookConfig.webhookUrl: overrides any provided webhook URL
Destination(run, cfg) == cfg.webhookUrl

\* await download.path() settles.  Resolved: the artifact is in tempDir,
\* downloadWithRetry returns, determineWebhookConfig, fs.readFile is called.
\* Rejected: the attempt failed; a partial file may stay in tempDir.
PathReturn(r) ==
    /\ Alive
    /\ runs[r].pc = "path"
    /\ \/ \E name \in FileNames :
            LET cfg == determineWebhookConfig(name)
                got == [runs[r] EXCEPT !.files = @ \cup {"artifact"},
                                       !.downloadPath = TRUE,
                                       !.fileName = name]
            IN  /\ PageOpen(runs[r]) /\ Serving(runs[r].browser)
                /\ runs[r].dirExists
                /\ runs' = [runs EXCEPT ![r] =
                              IF cfg.ok
                              THEN [got EXCEPT !.webhookUrl = Destination(got, cfg),
                                               !.reportType = cfg.reportType,
                                               !.pc = "readFile"]
                              ELSE Fail(got, "RoutingNotConfigured")]
       \/ \E partial \in BOOLEAN :
            /\ partial => runs[r].dirExists
            /\ runs' = [runs EXCEPT ![r] =
                          AttemptFailed([@ EXCEPT !.files =
                              IF partial THEN @ \cup {"partial"} ELSE @])]
    /\ UNCHANGED <<config, process, globalBrowser, browsers, startup, restart, budget,
                   harness>>

\* the RETRY_DELAY timer of downloadWithRetry fires; page.reload is called
BackoffReturn(r) ==
    /\ Alive
    /\ runs[r].pc = "backoff"
    /\ runs' = [runs EXCEPT ![r].pc = "reload"]
    /\ UNCHANGED <<config, process, globalBrowser, browsers, startup, restart, budget,
                   harness>>

\* page.reload settles (a rejection is caught and ignored);
\* downloadWithRetry(page, url, tempDir, retries + 1)
ReloadReturn(r) ==
    /\ Alive
    /\ runs[r].pc = "reload"
    /\ runs' = [runs EXCEPT ![r] = StartAttempt(@, @.retries + 1)]
    /\ UNCHANGED <<config, process, globalBrowser, browsers, startup, restart, budget,
                   harness>>

\* fs.readFile settles; the webhook loop starts with webhookRetries = 0
ReadFileReturn(r) ==
    /\ Alive
    /\ runs[r].pc = "readFile"
    /\ \E ok \in BOOLEAN :
        /\ Settles(ok, runs[r].dirExists /\ "artifact" \in runs[r].files)
        /\ budget' = BudgetAfter(ok, runs[r].dirExists /\ "artifact" \in runs[r].files)
        /\ runs' = [runs EXCEPT ![r] =
                      IF ok THEN RelayLoop([@ EXCEPT !.webhookRetries = 0])
                      ELSE Fail(@, "ReadFailed")]
    /\ UNCHANGED <<config, process, globalBrowser, browsers, startup, restart, harness>>

\* mutant: no break after the POST that resolved, the loop tests again
PostResolvedNoBreak(run) == RelayLoop([run EXCEPT !.delivered = @ + 1])
\* webhookResponse = await axios.post(...) resolved: break, the success is
\* logged and the try block ends
PostResolved(run) == Succeed([run EXCEPT !.delivered = @ + 1])

\* axios.post settles
PostReturn(r) ==
    /\ Alive
    /\ runs[r].pc = "post"
    /\ \E ok \in BOOLEAN :
        runs' = [runs EXCEPT ![r] =
                   IF ok THEN PostResolved(@)
                   ELSE LET w == [@ EXCEPT !.webhookRetries = @ + 1]
                        IN  IF RelayExhausted(w.webhookRetries)
                            THEN Fail([w EXCEPT !.named = RelayFailureNames],
                                      "RelayFailed")
                            ELSE Backoff(w, "relay", w.webhookRetries,
                                         "postBackoff")]
    /\ UNCHANGED <<config, process, globalBrowser, browsers, startup, restart, budget,
                   harness>>

\* the RETRY_DELAY timer of the webhook loop fires
PostBackoffReturn(r) ==
    /\ Alive
    /\ runs[r].pc = "postBackoff"
    /\ runs' = [runs EXCEPT ![r] = RelayLoop(@)]
    /\ UNCHANGED <<config, process, globalBrowser, browsers, startup, restart, budget,
                   harness>>

(***************************************************************************)
(* The finally block of processDownloadAsync.                              *)
(***************************************************************************)
\* what fs.readdir lists
Listing(files) == SelectSeq(<<"artifact", "partial">>, LAMBDA f : f \in files)

\* rmdir is called once the listed files have been gone through
AfterListing(run) ==
    IF run.listing = <<>> THEN [run EXCEPT !.pc = "rmdir"]
    ELSE [run EXCEPT !.pc = "unlinkFile"]

NextListed(run) == AfterListing([run EXCEPT !.listing = Tail(@)])

\* fs.unlink(downloadPath) settles
UnlinkReturn(r) ==
    /\ Alive
    /\ runs[r].pc = "unlink"
    /\ \E ok \in BOOLEAN :
        LET possible == runs[r].dirExists /\ "artifact" \in runs[r].files
        IN  /\ Settles(ok, possible)
            /\ budget' = BudgetAfter(ok, possible)
            /\ runs' = [runs EXCEPT ![r] =
                          IF ok THEN FinallyDir([@ EXCEPT !.files = @ \ {"artifact"}])
                          ELSE StepFailed(@, "unlink", FinallyDir)]
    /\ UNCHANGED <<config, process, globalBrowser, browsers, startup, restart, harness>>

\* fs.readdir(tempDir) settles
ReaddirReturn(r) ==
    /\ Alive
    /\ runs[r].pc = "readdir"
    /\ \E ok \in BOOLEAN :
        LET possible == runs[r].dirExists
        IN  /\ Settles(ok, possible)
            /\ budget' = BudgetAfter(ok, possible)
            /\ runs' = [runs EXCEPT ![r] =
                          IF ok THEN AfterListing([@ EXCEPT !.listing = Listing(runs[r].files)])
                          ELSE StepFailed(@, "readdir", FinallyPage)]
    /\ UNCHANGED <<config, process, globalBrowser, browsers, startup, restart, harness>>

\* fs.unlink of one listed file settles
UnlinkFileReturn(r) ==
    /\ Alive
    /\ runs[r].pc = "unlinkFile"
    /\ \E ok \in BOOLEAN :
        LET file == Head(runs[r].listing)
            possible == runs[r].dirExists /\ file \in runs[r].files
        IN  /\ Settles(ok, possible)
            /\ budget' = BudgetAfter(ok, possible)
            /\ runs' = [runs EXCEPT ![r] =
                          IF ok THEN NextListed([@ EXCEPT !.files = @ \ {file}])
                          ELSE StepFailed(@, "unlinkFile", NextListed)]
    /\ UNCHANGED <<config, process, globalBrowser, browsers, startup, restart, harness>>

\* mutant: fs.rm(tempDir, { recursive: true }), which removes the content too
rmRecursive(run) == run.dirExists
\* fs.rmdir(tempDir) removes the directory only when it is empty
rmdir(run) == run.dirExists /\ run.files = {}

\* fs.rmdir(tempDir) settles
RmdirReturn(r) ==
    /\ Alive
    /\ runs[r].pc = "rmdir"
    /\ \E ok \in BOOLEAN :
        LET possible == rmdir(runs[r])
        IN  /\ Settles(ok, possible)
            /\ budget' = BudgetAfter(ok, possible)
            /\ runs' = [runs EXCEPT ![r] =
                          IF ok THEN FinallyPage([@ EXCEPT !.dirExists = FALSE,
                                                           !.listing = <<>>,
                                                           !.dirRemovals = @ + 1])
                          ELSE StepFailed([@ EXCEPT !.listing = <<>>], "rmdir",
                                          FinallyPage)]
    /\ UNCHANGED <<config, process, globalBrowser, browsers, startup, restart, harness>>

\* page.close() settles: closing a page that is closed already resolves
PageCloseReturn(r) ==
    /\ Alive
    /\ runs[r].pc = "pageClose"
    /\ \E ok \in BOOLEAN :
        LET canFail == PageOpen(runs[r])
        IN  /\ ok \/ (canFail /\ budget > 0)
            /\ budget' = IF ok THEN budget ELSE budget - 1
            /\ runs' = [runs EXCEPT ![r] =
                          IF ok THEN FinallyContext([@ EXCEPT !.page = "closed"])
                          ELSE StepFailed(@, "pageClose", FinallyContext)]
    /\ UNCHANGED <<config, process, globalBrowser, browsers, startup, restart, harness>>

\* the finally block has run through
Finished(run) == [run EXCEPT !.pc = "done"]

\* context.close() settles: closing a closed context resolves
ContextCloseReturn(r) ==
    /\ Alive
    /\ runs[r].pc = "ctxClose"
    /\ \E ok \in BOOLEAN :
        LET canFail == ContextOpen(runs[r])
        IN  /\ ok \/ (canFail /\ budget > 0)
            /\ budget' = IF ok THEN budget ELSE budget - 1
            /\ runs' = [runs EXCEPT ![r] =
                          IF ok THEN Finished([@ EXCEPT !.context = "closed",
                                                        !.page = IF @ = "open"
                                                                 THEN "closed" ELSE @,
                                                        !.ctxCloses =
                                                            IF canFail THEN @ + 1 ELSE @])
                          ELSE StepFailed(@, "ctxClose", Finished)]
    /\ UNCHANGED <<config, process, globalBrowser, browsers, startup, restart, harness>>

(***************************************************************************)
(* The server.                                                             *)
(***************************************************************************)
Pending == [ok |-> FALSE, url |-> <<>>, error |-> "pending"]
NotRouted == [ok |-> FALSE, webhookUrl |-> "", reportType |-> "pending"]
RouteIdle == routeName = <<>> /\ routed = NotRouted
\* downloadWithRetry has not been called
NotCalled ==
    [pc |-> "idle",
     retries |-> 0,         \* parameter retries of the innermost call
     now |-> 0,             \* ms since the first call
     listenBy |-> 0,        \* when the pending waitForEvent times out
     navs |-> <<>>,         \* navs[k]: the page.goto promise of attempt k
     navBy |-> <<>>,        \* navBy[k]: when that page.goto times out
     wakeAt |-> 0,          \* when the pending setTimeout fires
     log |-> <<>>,          \* the operations issued and the failures caught
     errors |-> <<>>,       \* the error each failed attempt was caught with
     thrown |-> "none",     \* the error the outermost call rejected with
     returned |-> "none"]   \* the { downloadPath, fileName } it resolved with
CallIdle == call = NotCalled
HarnessIdle == messageData = MsgEmpty /\ extracted = Pending /\ RouteIdle /\ CallIdle

\* process.env: MAX_RETRIES, MISSIVE_API_KEY and the two webhook endpoints
Env(max, key, fuel, efs) == [max |-> max, key |-> key, fuel |-> fuel, efs |-> efs]
Key == "key"
FuelHook == "https://hooks/fuel"
EfsHook == "https://hooks/efs"

\* everything configured, with every MAX_RETRIES up to the bound
Configured == {Env(n, Key, FuelHook, EfsHook) : n \in 0..MaxRetriesBound}
\* one of the three settings missing
Unconfigured == {Env(MaxRetriesBound, "", FuelHook, EfsHook),
                 Env(MaxRetriesBound, Key, "", EfsHook),
                 Env(MaxRetriesBound, Key, FuelHook, "")}

\* the process is up and no signal has been delivered
Running == [pc |-> "running", awaiting |-> {}, signals |-> 0]

\* the server as app.listen calls back, with nRuns requests and nRestarts
\* restart requests to come, under one of the environments Envs
InitWith(nRuns, nRestarts, Envs, faults, answers) ==
    /\ inbox = answers
    /\ \E e \in Envs :
        /\ MAX_RETRIES = e.max
        /\ MISSIVE_API_KEY = e.key
        /\ FUELREPORTWEBHOOK = e.fuel
        /\ EFSREPORTWEBHOOK = e.efs
    /\ globalBrowser = 0
    /\ browsers = <<>>
    /\ startup = [pc |-> "ensureDir", b |-> 0]
    /\ restart = [k \in Restarts |->
                    [pc |-> IF k <= nRestarts THEN "idle" ELSE "unused",
                     b |-> 0, status |-> 0]]
    /\ runs = [r \in Runs |->
                 IF r <= nRuns THEN NewRun ELSE [NewRun EXCEPT !.pc = "unused"]]
    /\ budget = faults
    /\ process = Running

InitServer(nRuns, nRestarts, Envs, faults) ==
    InitWith(nRuns, nRestarts, Envs, faults, Messages)

\* concurrent load: NumRuns runs and NumRestarts restarts, fully configured
Init ==
    /\ InitServer(NumRuns, 1, {Env(0, Key, FuelHook, EfsHook)}, 0)
    /\ HarnessIdle

\* the steps of the pipeline runs
Pipeline ==
    \/ \E r \in Runs : Request(r)
    \/ \E r \in Runs : FetchReturn(r)
    \/ \E r \in Runs : LaunchReturn(r)
    \/ \E r \in Runs : MkdirReturn(r)
    \/ \E r \in Runs : NewContextReturn(r)
    \/ \E r \in Runs : NewPageReturn(r)
    \/ \E r \in Runs : DownloadReturn(r)
    \/ \E r \in Runs : PathReturn(r)
    \/ \E r \in Runs : BackoffReturn(r)
    \/ \E r \in Runs : ReloadReturn(r)
    \/ \E r \in Runs : ReadFileReturn(r)
    \/ \E r \in Runs : PostReturn(r)
    \/ \E r \in Runs : PostBackoffReturn(r)
    \/ \E r \in Runs : UnlinkReturn(r)
    \/ \E r \in Runs : ReaddirReturn(r)
    \/ \E r \in Runs : UnlinkFileReturn(r)
    \/ \E r \in Runs : RmdirReturn(r)
    \/ \E r \in Runs : PageCloseReturn(r)
    \/ \E r \in Runs : ContextCloseReturn(r)

Next ==
    \/ StartupDirReturn
    \/ StartupLaunchReturn
    \/ \E k \in Restarts : RestartRequest(k)
    \/ \E k \in Restarts : RestartCloseReturn(k)
    \/ \E k \in Restarts : RestartLaunchReturn(k)
    \/ Pipeline

Spec == Init /\ [][Next]_vars

\* NumRuns pipeline runs in flight together, one retry allowed, no restart
\* request; the app.listen callback has finished, its chromium.launch either
\* resolved (globalBrowser set) or rejected (globalBrowser still null)
InitRuns ==
    /\ MAX_RETRIES = 1
    /\ MISSIVE_API_KEY = Key
    /\ FUELREPORTWEBHOOK = FuelHook
    /\ EFSREPORTWEBHOOK = EfsHook
    /\ inbox = Messages
    /\ \/ /\ globalBrowser = 1
          /\ browsers = <<"open">>
          /\ startup = [pc |-> "ready", b |-> 1]
       \/ /\ globalBrowser = 0
          /\ browsers = <<"failed">>
          /\ startup = [pc |-> "failed", b |-> 1]
    /\ restart = [k \in Restarts |-> [pc |-> "unused", b |-> 0, status |-> 0]]
    /\ runs = [r \in Runs |-> NewRun]
    /\ budget = 0
    /\ process = Running
    /\ HarnessIdle
NextRuns == Pipeline
SpecRuns == InitRuns /\ [][NextRuns]_vars

\* one run whose message carries the download link, the message API naming
\* a conversation or none, with one retry allowed on each leg
InitPayload ==
    /\ InitWith(1, 0, {Env(1, Key, FuelHook, EfsHook)}, 0, {MsgAnchor, MsgAnchorOnly})
    /\ HarnessIdle
NextPayload == StartupDirReturn \/ StartupLaunchReturn \/ Pipeline
SpecPayload == InitPayload /\ [][NextPayload]_vars

\* one run under every MAX_RETRIES with one fault, every external operation
\* settling in the end: a step of the pipeline that stays enabled is taken
InitSettling ==
    /\ InitServer(1, 0, Configured, 1)
    /\ HarnessIdle
SpecSettling == InitSettling /\ [][NextPayload]_vars /\ WF_vars(Pipeline)

\* NumRuns runs in flight together on the engine the app.listen callback has
\* launched, one retry allowed, no restart request, and one failure injected
\* anywhere; initBrowser finds the engine, so no run launches one
InitContexts ==
    /\ MAX_RETRIES = 1
    /\ MISSIVE_API_KEY = Key
    /\ FUELREPORTWEBHOOK = FuelHook
    /\ EFSREPORTWEBHOOK = EfsHook
    /\ inbox = {MsgAnchor}
    /\ globalBrowser = 1
    /\ browsers = <<"open">>
    /\ startup = [pc |-> "ready", b |-> 1]
    /\ restart = [k \in Restarts |-> [pc |-> "unused", b |-> 0, status |-> 0]]
    /\ runs = [r \in Runs |-> NewRun]
    /\ budget = 1
    /\ process = Running
    /\ HarnessIdle
NextContexts ==
    \/ \E r \in Runs : Request(r)
    \/ \E r \in Runs : FetchReturn(r)
    \/ \E r \in Runs : MkdirReturn(r)
    \/ \E r \in Runs : NewContextReturn(r)
    \/ \E r \in Runs : NewPageReturn(r)
    \/ \E r \in Runs : DownloadReturn(r)
    \/ \E r \in Runs : PathReturn(r)
    \/ \E r \in Runs : BackoffReturn(r)
    \/ \E r \in Runs : ReloadReturn(r)
    \/ \E r \in Runs : ReadFileReturn(r)
    \/ \E r \in Runs : PostReturn(r)
    \/ \E r \in Runs : PostBackoffReturn(r)
    \/ \E r \in Runs : UnlinkReturn(r)
    \/ \E r \in Runs : ReaddirReturn(r)
    \/ \E r \in Runs : UnlinkFileReturn(r)
    \/ \E r \in Runs : RmdirReturn(r)
    \/ \E r \in Runs : PageCloseReturn(r)
    \/ \E r \in Runs : ContextCloseReturn(r)
SpecContexts == InitContexts /\ [][NextContexts]_vars

\* one pipeline run with the startup and one restart request around it,
\* under every environment and with MaxFaults injected faults
InitRun ==
    /\ InitServer(1, 1, Configured \cup Unconfigured, MaxFaults)
    /\ HarnessIdle
SpecRun == InitRun /\ [][Next]_vars

\* one pipeline run among NumRestarts restart requests, with one retry
\* allowed and one injected fault
InitRestarts ==
    /\ InitServer(1, NumRestarts, {Env(1, Key, FuelHook, EfsHook)}, 1)
    /\ HarnessIdle
SpecRestarts == InitRestarts /\ [][Next]_vars

(***************************************************************************)
(* SIGINT and SIGTERM.  The two handlers are the same code: close the      *)
(* browser globalBrowser names, if any, then process.exit(0).  Once the    *)
(* process has exited nothing runs any more.                               *)
(***************************************************************************)
Signal ==
    /\ Alive
    /\ process.signals < MaxSignals
    /\ IF globalBrowser # 0
       THEN /\ browsers' = CloseCalled(browsers, globalBrowser)
            /\ process' = [process EXCEPT !.awaiting = @ \cup {globalBrowser},
                                          !.signals = @ + 1]
       ELSE /\ process' = [process EXCEPT !.pc = "exited", !.signals = @ + 1]
            /\ UNCHANGED browsers
    /\ UNCHANGED <<config, globalBrowser, startup, restart, runs, budget, harness>>

\* await globalBrowser.close() returns in a signal handler; process.exit(0)
SignalCloseReturn ==
    /\ Alive
    /\ \E b \in process.awaiting :
          browsers' = [browsers EXCEPT ![b] = "closed"]
    /\ process' = [process EXCEPT !.pc = "exited"]
    /\ UNCHANGED <<config, globalBrowser, startup, restart, runs, budget, harness>>

\* one pipeline run and one restart request with signals among them
InitSignals ==
    /\ InitServer(1, 1, {Env(1, Key, FuelHook, EfsHook)}, 1)
    /\ HarnessIdle
NextSignals == Next \/ Signal \/ SignalCloseReturn
SpecSignals == InitSignals /\ [][NextSignals]_vars

(***************************************************************************)
(* The finally block executed again on the variables of a finished run.    *)
(***************************************************************************)
Resources(run) ==
    [dirExists |-> run.dirExists, files |-> run.files, page |-> run.page,
     context |-> run.context, ctxCloses |-> run.ctxCloses,
     dirRemovals |-> run.dirRemovals]

ReleaseAgain(r) ==
    /\ Alive
    /\ runs[r].pc = "done"
    /\ runs[r].pass < MaxPasses
    /\ runs' = [runs EXCEPT ![r] =
                  Finally([@ EXCEPT !.pass = @ + 1, !.escaped = FALSE,
                                    !.rejected = {},
                                    !.before = Resources(runs[r])])]
    /\ UNCHANGED <<config, process, globalBrowser, browsers, startup, restart, budget,
                   harness>>

InitRelease ==
    /\ InitServer(1, 1, {Env(1, Key, FuelHook, EfsHook)}, MaxFaults)
    /\ HarnessIdle
NextRelease == Next \/ \E r \in Runs : ReleaseAgain(r)
SpecRelease == InitRelease /\ [][NextRelease]_vars

(***************************************************************************)
(* extractDownloadUrl applied to the responses ExtractInputs.              *)
(***************************************************************************)
ExtractInputs ==
    {Response("object", b, "") : b \in Bodies(MaxFrags)}
    \cup {Response(kind, b, "") :
            kind \in {"array", "emptyArray", "message", "root", "absent"},
            b \in Bodies(1)}

Extract ==
    /\ extracted = Pending
    /\ extracted' = extractDownloadUrl(messageData)
    /\ UNCHANGED <<config, process, globalBrowser, browsers, startup, restart, runs,
                   budget, messageData, routeName, routed, call>>

InitExtract ==
    /\ InitServer(0, 0, {Env(0, Key, FuelHook, EfsHook)}, 0)
    /\ messageData \in ExtractInputs
    /\ extracted = Pending
    /\ RouteIdle
    /\ CallIdle
NextExtract == Extract
SpecExtract == InitExtract /\ [][NextExtract]_vars

(***************************************************************************)
(* determineWebhookConfig applied to the file names RouteNames, under      *)
(* every combination of configured and missing endpoints.                  *)
(***************************************************************************)
\* grandtotalreport.PDF
NameLowerMarker ==
    <<"g", "r", "a", "n", "d", "t", "o", "t", "a", "l", "r", "e", "p", "o", "r", "t", ".", "P", "D", "F">>
NamePrefixes == {<<>>, <<"W", "E", "X", "_">>}
NameCores ==
    {<<"G", "r", "a", "n", "d", "T", "o", "t", "a", "l", "R", "e", "p", "o", "r", "t">>,
     <<"g", "r", "a", "n", "d", "t", "o", "t", "a", "l", "r", "e", "p", "o", "r", "t">>,
     <<"G", "R", "A", "N", "D", "T", "O", "T", "A", "L", "R", "E", "P", "O", "R", "T">>,
     <<"g", "R", "a", "N", "d", "T", "o", "T", "a", "L", "r", "E", "p", "O", "r", "T">>,
     <<"G", "r", "a", "n", "d", "T", "o", "t", "a", "l", "_", "R", "e", "p", "o", "r", "t">>,
     <<"G", "r", "a", "n", "d", "T", "o", "t", "a", "l", "R", "e", "p", "o", "r">>,
     <<"I", "n", "v", "o", "i", "c", "e">>,
     <<>>}
NameSuffixes == {<<>>, <<"_", "2", "0", "2", "4", ".", "p", "d", "f">>, <<".", "P", "D", "F">>, <<"g", "r", "a", "n", "d", "t", "o", "t", "a", "l", "r", "e", "p", "o", "r", "t">>}
RouteNames ==
    {p \o c \o x : p \in NamePrefixes, c \in NameCores, x \in NameSuffixes}
    \cup FileNames

RouteEnvs == {Env(0, Key, fuel, efs) : fuel \in {"", FuelHook}, efs \in {"", EfsHook}}

Route ==
    /\ routed = NotRouted
    /\ routed' = determineWebhookConfig(routeName)
    /\ UNCHANGED <<config, process, globalBrowser, browsers, startup, restart, runs,
                   budget, messageData, extracted, routeName, call>>

InitRoute ==
    /\ InitServer(0, 0, RouteEnvs, 0)
    /\ messageData = MsgEmpty /\ extracted = Pending
    /\ routeName \in RouteNames
    /\ routed = NotRouted
    /\ CallIdle
NextRoute == Route
SpecRoute == InitRoute /\ [][NextRoute]_vars

(***************************************************************************)
(* downloadWithRetry, operation by operation.  call.now is the time in ms  *)
(* since the first call; an operation issued with a timeout settles by     *)
(* then at the latest, and timers fire in the order of their expiry.       *)
(***************************************************************************)
\* page.waitForEvent('download', { timeout: 30000 })
DOWNLOAD_TIMEOUT == 30000
\* mutant: a page.goto that may outlast the download wait and the backoff
GotoOutlastsBackoff == DOWNLOAD_TIMEOUT + DOWNLOAD_TIMEOUT
\* page.goto(url, { waitUntil: 'commit', timeout: 30000 })
GOTO_TIMEOUT == 30000
\* page.reload({ timeout: 5000 })
RELOAD_TIMEOUT == 5000

Op(op, k, ms) == [op |-> op, attempt |-> k, ms |-> ms]
Err(from, k) == [from |-> from, attempt |-> k]
notCall == <<config, process, globalBrowser, browsers, startup, restart, runs,
             budget, messageData, extracted, routeName, routed>>

\* const downloadPromise = page.waitForEvent('download', { timeout: 30000 })
waitForEvent(c, k) ==
    [c EXCEPT !.listenBy = c.now + DOWNLOAD_TIMEOUT,
              !.log = Append(@, Op("waitForEvent", k, DOWNLOAD_TIMEOUT))]

\* page.goto(url, { waitUntil: 'commit', timeout: 30000 }), not awaited
goto(c, k) ==
    [c EXCEPT !.navs = Append(@, "pending"),
              !.navBy = Append(@, c.now + GOTO_TIMEOUT),
              !.log = Append(@, Op("goto", k, GOTO_TIMEOUT))]

\* mutant: the navigation is issued before the listener is registered
NavigateFirst(c, retries) ==
    [waitForEvent(goto(c, retries + 1), retries + 1)
        EXCEPT !.retries = retries, !.pc = "wait"]

\* downloadWithRetry(page, url, tempDir, retries), from its call to
\* await downloadPromise
downloadWithRetry(c, retries) ==
    [goto(waitForEvent(c, retries + 1), retries + 1)
        EXCEPT !.retries = retries, !.pc = "wait"]

\* catch (error): wait RETRY_DELAY and retry while retries < MAX_RETRIES,
\* otherwise throw error
catchError(c, error) ==
    LET f == [c EXCEPT !.errors = Append(@, error),
                       !.log = Append(@, Op("failed", error.attempt, 0))]
    IN  IF DownloadRetryAllowed(c.retries)
        THEN [f EXCEPT !.pc = "sleep",
                       !.wakeAt = c.now + BackoffDelay(c.retries + 1),
                       !.log = Append(@, Op("setTimeout", c.retries + 1,
                                            BackoffDelay(c.retries + 1)))]
        ELSE [f EXCEPT !.pc = "thrown", !.thrown = error]

\* mutant: the page.goto promise is awaited with the download, its rejection
\* fails the attempt
navigationAwaited(c, k) ==
    IF c.pc = "wait" /\ k = c.retries + 1 THEN catchError(c, Err("goto", k)) ELSE c
\* .catch(err => { console.log(...) }) on the page.goto promise
navigationIgnored(c, k) == c

\* mutant: the rejection of page.reload leaves downloadWithRetry
reloadUncaught(c) ==
    [c EXCEPT !.pc = "thrown", !.thrown = Err("reload", c.retries + 1)]
\* catch (reloadError): logged, then return downloadWithRetry(.., retries + 1)
reloadCaught(c) ==
    downloadWithRetry([c EXCEPT !.log = Append(@, Op("reloadFailed", c.retries + 1, 0))],
                      c.retries + 1)

\* time t can come: every page.goto whose timeout is before t has settled
Reachable(c, t) ==
    \A k \in DOMAIN c.navs : c.navs[k] = "pending" => c.navBy[k] >= t

\* the page.goto of attempt k, if it is pending, settles with outcome
SettledWith(c, k, outcome) ==
    [c EXCEPT !.navs[k] = IF @ = "pending" THEN outcome ELSE @]

\* the pipeline calls downloadWithRetry(page, downloadUrl, tempDir)
CallDownload ==
    /\ call.pc = "idle"
    /\ call' = downloadWithRetry(call, 0)
    /\ UNCHANGED notCall

\* a page.goto promise resolves (the response committed) or rejects (the
\* navigation failed, was aborted by a download, or timed out)
NavigationSettles ==
    /\ \E k \in DOMAIN call.navs : \E outcome \in {"resolved", "rejected"} :
        /\ call.navs[k] = "pending"
        /\ call' = IF outcome = "rejected"
                   THEN navigationIgnored(SettledWith(call, k, outcome), k)
                   ELSE SettledWith(call, k, outcome)
    /\ UNCHANGED notCall

\* await downloadPromise settles: a download event within the window (the
\* navigation has committed or been aborted by then), the page closed under
\* the wait, or the timeout
WaitSettles ==
    /\ call.pc = "wait"
    /\ LET k == call.retries + 1
       IN  \/ \E nav \in {"resolved", "rejected"} :
                /\ Reachable(call, call.now + 1)
                /\ call' = [SettledWith(call, k, nav)
                               EXCEPT !.now = @ + 1, !.pc = "path"]
           \/ /\ Reachable(call, call.now + 1)
              /\ call' = catchError([SettledWith(call, k, "rejected")
                                        EXCEPT !.now = @ + 1],
                                    Err("closed", k))
           \/ /\ Reachable(call, call.listenBy)
              /\ call' = catchError([call EXCEPT !.now = call.listenBy],
                                    Err("timeout", k))
    /\ UNCHANGED notCall

\* await download.path() settles; download.suggestedFilename() is read
PathSettles ==
    /\ call.pc = "path"
    /\ Reachable(call, call.now + 1)
    /\ \E ok \in BOOLEAN :
        LET c == [call EXCEPT !.now = @ + 1]
        IN  call' = IF ok
                    THEN [c EXCEPT !.pc = "returned",
                                   !.returned = [downloadPath |-> TRUE,
                                                 fileName |-> TRUE,
                                                 attempt |-> c.retries + 1]]
                    ELSE catchError(c, Err("path", c.retries + 1))
    /\ UNCHANGED notCall

\* the setTimeout of RETRY_DELAY fires: await page.reload({ timeout: 5000 })
DelayElapses ==
    /\ call.pc = "sleep"
    /\ Reachable(call, call.wakeAt)
    /\ call' = [call EXCEPT !.now = call.wakeAt,
                            !.pc = "reload",
                            !.listenBy = call.wakeAt + RELOAD_TIMEOUT,
                            !.log = Append(@, Op("reload", call.retries + 1,
                                                 RELOAD_TIMEOUT))]
    /\ UNCHANGED notCall

\* page.reload settles, at once or at its timeout, and the next attempt starts
ReloadSettles ==
    /\ call.pc = "reload"
    /\ \E ok \in BOOLEAN :
        LET t == IF ok THEN call.now + 1 ELSE call.listenBy
            c == [call EXCEPT !.now = t]
        IN  /\ Reachable(call, t)
            /\ call' = IF ok THEN downloadWithRetry(c, c.retries + 1)
                       ELSE reloadCaught(c)
    /\ UNCHANGED notCall

InitDownload ==
    /\ InitServer(0, 0, Configured, 0)
    /\ messageData = MsgEmpty /\ extracted = Pending /\ RouteIdle
    /\ CallIdle
NextDownload ==
    \/ CallDownload
    \/ NavigationSettles
    \/ WaitSettles
    \/ PathSettles
    \/ DelayElapses
    \/ ReloadSettles
SpecDownload == InitDownload /\ [][NextDownload]_vars

(***************************************************************************)
(* GET /health.                                                            *)
(***************************************************************************)
\* const browserStatus = globalBrowser ? 'running' : 'not initialized'
browserStatus(gb) == IF gb # 0 THEN "running" ELSE "not initialized"
\* what GET /health answers in the current state
health == [status |-> "healthy", browser |-> browserStatus(globalBrowser)]

(***************************************************************************)
(* Claims.                                                                 *)
(***************************************************************************)
Launched == {b \in DOMAIN browsers : browsers[b] # "failed"}
LiveBrowsers == {b \in DOMAIN browsers : Live(b)}
NoRestartYet == \A k \in Restarts : restart[k].pc \in {"idle", "unused"}
\* the instances initBrowser has returned to the startup and to the runs
Received ==
    (IF startup.pc = "ready" THEN {startup.b} ELSE {})
    \cup {runs[r].browser : r \in {q \in Runs :
            runs[q].pc \notin {"idle", "unused", "fetch", "launch"}
            /\ runs[q].browser # 0}}

\* C1: callers of initBrowser that find no engine yet (a run and the startup,
\* before any restart) cause one chromium.launch between them and all receive
\* the same instance.
C1_SingleLaunch ==
    NoRestartYet => Cardinality(Launched) <= 1 /\ Cardinality(Received) <= 1

\* C2: at most one browser is launched and not closed, and while a restart is
\* launching the new instance no earlier instance is still live.
C2_AtMostOneLive ==
    /\ Cardinality(LiveBrowsers) <= 1
    /\ \A k \in Restarts : restart[k].pc = "launch" => LiveBrowsers = {}

FsSteps == {"unlink", "readdir", "unlinkFile", "rmdir"}
DirCreated(run) == run.dirExists \/ run.dirRemovals > 0

\* C3: when a run has terminated, the temp directory it created has been
\* removed once and the context it opened has been closed once, whatever
\* stage failed (unless the file system refused the removal, or the browser
\* the closing of the context).
C3_ReleasedOnce ==
    \A r \in Runs :
        runs[r].pc = "done" =>
            /\ DirCreated(runs[r]) /\ runs[r].rejected \cap FsSteps = {}
                => ~runs[r].dirExists /\ runs[r].dirRemovals = 1
            /\ runs[r].context # "undef" /\ "ctxClose" \notin runs[r].rejected
                => ~ContextOpen(runs[r]) /\ runs[r].ctxCloses <= 1

\* C4: no run terminates with its temp directory removed while its browser
\* context is still open, also when a cleanup step (here: any step before
\* context.close) has failed.
C4_NoPartialCleanup ==
    \A r \in Runs :
        runs[r].pc = "done" /\ "ctxClose" \notin runs[r].rejected =>
            ~(runs[r].dirRemovals > 0 /\ ~runs[r].dirExists /\ ContextOpen(runs[r]))

\* the pair a repeated pass starts from is fully released
Released(res) == ~res.dirExists /\ res.page # "open" /\ res.context # "open"

\* C5: executing the finally block again on a directory that is removed and a
\* page and context that are closed throws nothing and changes nothing.
C5_IdempotentRelease ==
    \A r \in Runs :
        runs[r].pass >= 2 /\ Released(runs[r].before) =>
            ~runs[r].escaped /\ Resources(runs[r]) = runs[r].before

\* a second pass has run through on a directory that had been removed and a
\* context that had been closed by the first
W5_SecondPassDone ==
    \E r \in Runs :
        /\ runs[r].pass = 2 /\ runs[r].pc = "done"
        /\ Released(runs[r].before)
        /\ runs[r].before.dirRemovals = 1 /\ runs[r].before.ctxCloses = 1
        /\ runs[r].rejected # {}

\* C6: a run whose try block ran to its end (message fetched, URL extracted,
\* download captured, POST accepted) terminates as succeeded, with its temp
\* directory removed and its context closed.
C6_HappyPathReleased ==
    \A r \in Runs :
        /\ runs[r].pc = "done" /\ runs[r].result = "Succeeded"
        /\ runs[r].rejected \cap (FsSteps \cup {"ctxClose"}) = {}
        => ~runs[r].escaped /\ ~runs[r].dirExists /\ ~ContextOpen(runs[r])

\* C7: downloadWithRetry starts at most MAX_RETRIES + 1 attempts; when it
\* surfaces the failure every one of MAX_RETRIES + 1 attempts has failed; when
\* it returns a download, the attempts are the failed ones and the one that
\* succeeded.
C7_DownloadAttempts ==
    \A r \in Runs :
        /\ runs[r].dlAttempts <= MAX_RETRIES + 1
        /\ runs[r].error = "DownloadFailed" =>
              runs[r].dlAttempts = MAX_RETRIES + 1
              /\ runs[r].dlFailures = MAX_RETRIES + 1
        /\ runs[r].downloadPath => runs[r].dlAttempts = runs[r].dlFailures + 1

\* a download has failed for good after at least one retry
W7_Exhausted ==
    \E r \in Runs :
        /\ runs[r].error = "DownloadFailed"
        /\ MAX_RETRIES >= 1 /\ runs[r].dlAttempts = MAX_RETRIES + 1

\* C8: a run issues at most MAX_RETRIES + 1 POSTs, and exactly that many
\* when every one of them fails.
C8_RelayPosts ==
    \A r \in Runs :
        /\ runs[r].posts <= MAX_RETRIES + 1
        /\ runs[r].error = "RelayFailed" => runs[r].posts = MAX_RETRIES + 1

\* a relay has failed for good after at least one retry
W8_Exhausted ==
    \E r \in Runs :
        /\ runs[r].error = "RelayFailed"
        /\ MAX_RETRIES >= 1 /\ runs[r].posts = MAX_RETRIES + 1

\* C9: the relay failure names the number of POSTs the run has made.
C9_NamesAttemptsMade ==
    \A r \in Runs :
        runs[r].error = "RelayFailed" => runs[r].named = runs[r].posts

\* decoded elements of a sequence of matches
DecodedMatches(matches) == {decodeAmp(matches[i]) : i \in 1..Len(matches)}

\* the response of the message API whose body is the anchor followed by the
\* bare .pdf URL
AnchorAndPdf == Response("object", FragAnchor \o FragSeeAlsoPdf, "")

HasMarker(name) == \E i \in 1..Len(name) : StartsAtCI(name, LitMarker, i)

\* C11: determineWebhookConfig selects FUELREPORTWEBHOOK and 'FuelReport' for
\* every file name containing 'grandtotalreport' in any mix of cases, and
\* EFSREPORTWEBHOOK and 'EFSReport' for every other file name; the result is
\* a function of the file name (and the configured endpoints).
C11_RoutingByName ==
    routed # NotRouted =>
        /\ routed = determineWebhookConfig(routeName)
        /\ HasMarker(routeName) =>
              routed.webhookUrl = FUELREPORTWEBHOOK /\ routed.reportType = "FuelReport"
        /\ ~HasMarker(routeName) =>
              routed.webhookUrl = EFSREPORTWEBHOOK /\ routed.reportType = "EFSReport"

\* grandtotalreport.PDF has been routed to the configured fuel endpoint
W11_LowerCaseToFuel ==
    /\ routeName = NameLowerMarker
    /\ routed = [ok |-> TRUE, webhookUrl |-> FuelHook, reportType |-> "FuelReport"]

OpenBrowsers == {b \in DOMAIN browsers : browsers[b] \in {"open", "closing"}}

\* C18: the process never exits while a launched browser is still open.
C18_ClosedBeforeExit ==
    process.pc = "exited" => OpenBrowsers = {}

C15_RunsLeaveEngine ==
    [][runs' # runs =>
          /\ globalBrowser' # globalBrowser => globalBrowser = 0
          /\ \A b \in DOMAIN browsers :
                browsers[b] = "open" => browsers'[b] = "open"]_vars

ResolutionErrors == {"NotConfigured", "UpstreamUnavailable", "NoBody", "NoDownloadURL"}

\* C16: a run that fails while resolving (no API key, the message API call
\* fails, the response has no body, no pattern matches) has made at most one
\* message API call, none without a key, and has created no temp directory,
\* no context or page, no download attempt and no POST.
C16_ResolutionAborts ==
    \A r \in Runs :
        /\ runs[r].fetches <= 1
        /\ MISSIVE_API_KEY = "" => runs[r].fetches = 0
        /\ runs[r].error \in ResolutionErrors =>
              /\ ~runs[r].tempDir /\ ~runs[r].dirExists
              /\ runs[r].context = "undef" /\ runs[r].page = "undef"
              /\ runs[r].browser = 0
              /\ runs[r].dlAttempts = 0 /\ runs[r].posts = 0
              /\ runs[r].pc = "done"

\* a run has called the message API once, found no URL in the body and ended
W16_NoUrlAborted ==
    \E r \in Runs :
        /\ runs[r].pc = "done" /\ runs[r].error = "NoDownloadURL"
        /\ runs[r].fetches = 1 /\ runs[r].result = "Failed"

\* C17: a run whose selected endpoint is not configured fails in
\* determineWebhookConfig with no POST and no retry of anything after it,
\* and ends with its temp directory removed and its context closed (unless
\* the file system refused a removal or the browser the closing of the
\* context).
C17_RoutingAborts ==
    \A r \in Runs :
        runs[r].error = "RoutingNotConfigured" =>
            /\ ~determineWebhookConfig(runs[r].fileName).ok
            /\ runs[r].posts = 0 /\ runs[r].webhookRetries = 0
            /\ runs[r].result = "Failed"
            /\ runs[r].pc = "done"
               /\ runs[r].rejected \cap (FsSteps \cup {"ctxClose"}) = {}
               => ~runs[r].dirExists /\ ~ContextOpen(runs[r])

\* the stage of the spec's state machine a position of processDownloadAsync
\* belongs to: 0 none, 2 Resolving, 3 Downloading, 4 Relaying, 5 CleaningUp,
\* 6 terminal (Received, 1, is passed inside the request handler)
StageOf(pc) ==
    CASE pc \in {"idle", "unused", "rejected"} -> 0
      [] pc = "fetch" -> 2
      [] pc \in {"launch", "mkdir", "newContext", "newPage", "download", "path",
                 "backoff", "reload"} -> 3
      [] pc \in {"readFile", "post", "postBackoff"} -> 4
      [] pc \in {"unlink", "readdir", "unlinkFile", "rmdir", "pageClose",
                 "ctxClose"} -> 5
      [] pc = "done" -> 6

\* C19: a run is at one position, its stage never decreases, the step in
\* which it fails takes it into the finally block (or through it), and a run
\* is terminal only after its finally block has been entered.
C19_StagesInOrder ==
    /\ [](\A r \in Runs : runs[r].pc = "done" => runs[r].cleaning)
    /\ [][\A r \in Runs :
            /\ StageOf(runs'[r].pc) >= StageOf(runs[r].pc)
            /\ runs'[r].result = "Failed" /\ runs[r].result # "Failed" =>
                  StageOf(runs'[r].pc) >= 5 /\ runs'[r].cleaning
            /\ runs'[r].cleaning /\ ~runs[r].cleaning =>
                  runs'[r].result \in {"Succeeded", "Failed"}]_vars

\* a run has gone through every stage and ended Succeeded
W19_AllStages ==
    \E r \in Runs :
        /\ runs[r].pc = "done" /\ runs[r].result = "Succeeded"
        /\ runs[r].fetches = 1 /\ runs[r].dlAttempts >= 1 /\ runs[r].posts >= 1
        /\ runs[r].cleaning /\ runs[r].ctxCloses = 1 /\ runs[r].dirRemovals = 1


\* C20: with several runs interleaved, a step changes the record of one run
\* only; a run's directory is removed and its context closed only from that
\* run's own rmdir and context.close(), at most once; and each run has its own
\* MAX_RETRIES + 1 download attempts and POSTs whatever the other runs did.
C20_RunsIsolated ==
    /\ [](\A r \in Runs :
            /\ runs[r].dlAttempts <= MAX_RETRIES + 1
            /\ runs[r].posts <= MAX_RETRIES + 1
            /\ runs[r].error = "DownloadFailed" =>
                  runs[r].dlAttempts = MAX_RETRIES + 1
            /\ runs[r].error = "RelayFailed" => runs[r].posts = MAX_RETRIES + 1
            /\ runs[r].dirRemovals <= 1 /\ runs[r].ctxCloses <= 1)
    /\ [][\A r \in Runs :
            /\ runs'[r] # runs[r] =>
                  \A q \in Runs \ {r} : runs'[q] = runs[q]
            /\ runs[r].dirExists /\ ~runs'[r].dirExists => runs[r].pc = "rmdir"
            /\ runs[r].context = "open" /\ runs'[r].context # "open" =>
                  runs[r].pc = "ctxClose"]_vars

\* two runs were in flight together; one used up its download attempts, the
\* other failed a download once, went on to deliver and cleaned up
W20_InterleavedFailures ==
    \E r \in Runs : \E q \in Runs \ {r} :
        /\ runs[r].error = "DownloadFailed" /\ runs[r].dirRemovals = 1
        /\ runs[q].dlFailures = 1 /\ runs[q].result = "Succeeded"
        /\ runs[q].pc = "done" /\ runs[q].ctxCloses = 1
        /\ runs[q].dirRemovals = 1


\* C21: in every attempt of downloadWithRetry the download listener
\* (waitForEvent) is registered before the navigation (goto) of that attempt
\* is issued.
C21_ListenerBeforeNavigation ==
    \A i \in DOMAIN call.log :
        call.log[i].op = "goto" =>
            \E j \in 1..(i - 1) :
                /\ call.log[j].op = "waitForEvent"
                /\ call.log[j].attempt = call.log[i].attempt

\* a first attempt and a retry have both issued their navigation
W21_TwoNavigations ==
    /\ Len(call.navs) >= 2
    /\ \E i \in DOMAIN call.log :
        call.log[i].op = "goto" /\ call.log[i].attempt = 2


\* C22: the attempts on one page are sequential: attempt k + 1 is started
\* only after attempt k has been caught and the RETRY_DELAY timer has fired,
\* and a page.goto is in flight only for the attempt in progress, never during
\* the reload or a later attempt.
C22_AttemptsSequential ==
    /\ \A k \in DOMAIN call.navs :
          call.navs[k] = "pending" =>
              k = call.retries + 1 /\ call.pc # "reload"
    /\ call.pc \in {"reload", "wait", "path"} /\ call.errors # <<>> =>
          call.now >= call.wakeAt
    /\ \A i \in DOMAIN call.log :
          call.log[i].op = "waitForEvent" /\ call.log[i].attempt > 1 =>
              \E a \in 1..(i - 1) : \E b \in (a + 1)..(i - 1) :
                  /\ call.log[a] = Op("failed", call.log[i].attempt - 1, 0)
                  /\ call.log[b] = Op("setTimeout", call.log[i].attempt - 1,
                                      RETRY_DELAY)

\* the download wait of the first attempt timed out with its navigation
\* still in flight, and the second attempt is in progress
W22_RetryAfterTimeout ==
    /\ call.pc = "wait" /\ call.retries = 1
    /\ call.errors[1] = Err("timeout", 1)
    /\ call.navs = <<"rejected", "pending">>


\* C23: a rejected page.goto never fails an attempt: every error an attempt
\* is caught with comes from the download wait or from download.path(), the
\* step in which a page.goto rejects changes neither the position nor the
\* errors of the call, and an attempt that got its download returns the path
\* and the suggested file name whatever the navigation did.
C23_NavigationFailureIgnored ==
    /\ [](/\ \A i \in DOMAIN call.errors :
                call.errors[i].from \in {"timeout", "closed", "path"}
          /\ call.pc = "returned" =>
                /\ call.returned.downloadPath /\ call.returned.fileName
                /\ call.returned.attempt = Len(call.errors) + 1)
    /\ [][(/\ \E k \in DOMAIN call.navs :
                call.navs[k] = "pending" /\ call'.navs[k] = "rejected"
           /\ call'.now = call.now)
          => /\ call'.pc = call.pc
             /\ call'.errors = call.errors
             /\ call'.thrown = call.thrown]_vars

\* the navigation of the first attempt was rejected and that attempt
\* returned the download
W23_ReturnedAfterRejection ==
    /\ call.pc = "returned"
    /\ call.returned.attempt = 1
    /\ call.navs = <<"rejected">>


\* C24: when downloadWithRetry gives up, it has made MAX_RETRIES + 1
\* attempts and throws the error of the last one; a page.reload that failed
\* between two attempts changes neither.
C24_LastErrorSurfaced ==
    call.pc = "thrown" =>
        /\ Len(call.errors) = MAX_RETRIES + 1
        /\ Len(call.navs) = MAX_RETRIES + 1
        /\ call.thrown = call.errors[Len(call.errors)]
        /\ call.thrown.attempt = MAX_RETRIES + 1

\* two attempts failed in different ways with a failed reload between them,
\* and the second failure was thrown
W24_ReloadFailedBetween ==
    /\ call.pc = "thrown"
    /\ call.errors = <<Err("path", 1), Err("timeout", 2)>>
    /\ \E i \in DOMAIN call.log : call.log[i].op = "reloadFailed"


\* the waits a run has made between the attempts of one leg
DelaysOf(run, leg) == SelectSeq(run.delays, LAMBDA d : d.leg = leg)
\* the waits that leg should have made after made attempts, the last of them
\* followed by a wait only when the run is in or past that wait (waiting)
OneDelayEach(run, leg, made, waiting) ==
    LET ds == DelaysOf(run, leg)
    IN  /\ Len(ds) = IF waiting THEN made ELSE IF made = 0 THEN 0 ELSE made - 1
        /\ \A i \in DOMAIN ds : ds[i].after = i /\ ds[i].ms = RETRY_DELAY

\* C25: on the download leg and on the relay leg, exactly one wait of
\* RETRY_DELAY lies between two consecutive attempts, whatever the attempt
\* number, and no wait follows the last failed attempt.
C25_FixedBackoff ==
    \A r \in Runs :
        /\ OneDelayEach(runs[r], "download", runs[r].dlAttempts,
                        runs[r].pc \in {"backoff", "reload"})
        /\ OneDelayEach(runs[r], "relay", runs[r].posts,
                        runs[r].pc = "postBackoff")

\* a run retried its download, then used up its POSTs
W25_BothLegsWaited ==
    \E r \in Runs :
        /\ runs[r].error = "RelayFailed" /\ runs[r].posts = 3
        /\ Len(DelaysOf(runs[r], "download")) >= 1
        /\ Len(DelaysOf(runs[r], "relay")) = 2


\* C26: every POST of a run carries the same form: the file read from the
\* download under its suggested name, the routing label, the inbound message
\* id, and as conversationId the id at messages.conversation.id of the API's
\* answer when there is one, otherwise the inbound event's, otherwise "".
C26_RelayPayload ==
    \A r \in Runs :
        LET run == runs[r]
            expected ==
                [file |-> [bytes |-> "artifact", filename |-> run.fileName,
                           contentType |-> "application/pdf"],
                 type |-> IF HasMarker(run.fileName)
                          THEN "FuelReport" ELSE "EFSReport",
                 conversationId |->
                     IF run.apiConversationId # "" THEN run.apiConversationId
                     ELSE run.request.conversationId,
                 messageId |-> run.request.messageId]
        IN  /\ run.posts > 0 <=> run.posted # {}
            /\ run.posted \subseteq {expected}

\* a first POST and a retry, the API's conversation replacing the inbound one
W26_ApiReplacesInbound ==
    \E r \in Runs :
        /\ runs[r].posts = 2 /\ runs[r].request.conversationId = "conv-req"
        /\ \E f \in runs[r].posted : f.conversationId = "conv-api"


\* C27: in the finally block the directory is removed only in a step that
\* finds it without files, the downloaded file among them; a run that ends
\* with a file it could not delete ends with the directory in place.
C27_EmptyBeforeRemoved ==
    /\ [](\A r \in Runs :
            /\ runs[r].dirRemovals > 0 => runs[r].files = {}
            /\ runs[r].files # {} => runs[r].dirExists)
    /\ [][\A r \in Runs :
            runs[r].dirExists /\ ~runs'[r].dirExists =>
                /\ runs[r].files = {}
                /\ runs[r].pc = "rmdir"
                /\ runs[r].downloadPath => "unlink" \notin runs[r].rejected
                                           \/ "unlinkFile" \notin runs[r].rejected]_vars

\* the downloaded file could be deleted neither by path nor from the
\* listing, and the run ended with the directory and the file in place
W27_UndeletableKeepsDirectory ==
    \E r \in Runs :
        /\ runs[r].pc = "done" /\ runs[r].dirExists
        /\ "artifact" \in runs[r].files
        /\ {"unlink", "unlinkFile", "rmdir"} \subseteq runs[r].rejected


\* C28: whatever extractDownloadUrl returns is a non-empty absolute URL: it
\* begins with http:// or https://.
C28_AbsoluteUrl ==
    extracted.ok =>
        /\ extracted.url # <<>>
        /\ \/ StartsAt(extracted.url, LitHttp \o LitColonSlashes, 1)
           \/ StartsAt(extracted.url, LitHttp \o <<"s">> \o LitColonSlashes, 1)


\* the steps a run at most still takes: its place in the finally block, the
\* POSTs and the download attempts MAX_RETRIES leaves it, and what precedes
Rank(run) ==
    LET M == MAX_RETRIES
        relay == 9 + 3 * (M - run.webhookRetries)
        relayTop == 9 + 3 * M + 2
        attempt == relayTop + 1 + 4 * (M - run.retries)
        attemptTop == relayTop + 1 + 4 * M + 3
    IN  CASE run.pc \in {"done", "rejected", "unused"} -> 0
          [] run.pc = "ctxClose" -> 1
          [] run.pc = "pageClose" -> 2
          [] run.pc = "rmdir" -> 3
          [] run.pc = "unlinkFile" -> 4 + Len(run.listing)
          [] run.pc = "readdir" -> 7
          [] run.pc = "unlink" -> 8
          [] run.pc = "post" -> relay + 1
          [] run.pc = "postBackoff" -> relay + 2
          [] run.pc = "readFile" -> relayTop
          [] run.pc = "reload" -> attempt
          [] run.pc = "backoff" -> attempt + 1
          [] run.pc = "path" -> attempt + 2
          [] run.pc = "download" -> attempt + 3
          [] run.pc = "newPage" -> attemptTop + 1
          [] run.pc = "newContext" -> attemptTop + 2
          [] run.pc = "mkdir" -> attemptTop + 3
          [] run.pc = "launch" -> attemptTop + 4
          [] run.pc = "fetch" -> attemptTop + 5
          [] run.pc = "idle" -> attemptTop + 6

\* C29: when every external operation settles, a run that has started ends
\* Succeeded or Failed: each of its steps lowers Rank, which is bounded by
\* MAX_RETRIES and is 0 exactly at the end, so no run retries forever.
C29_RunsTerminate ==
    /\ \A r \in Runs : [](runs[r].started => <>(runs[r].pc = "done"))
    /\ [](\A r \in Runs :
            /\ Rank(runs[r]) >= 0
            /\ Rank(runs[r]) <= 7 * MAX_RETRIES + 21
            /\ runs[r].pc = "done" => runs[r].result \in {"Succeeded", "Failed"})
    /\ [][\A r \in Runs :
            runs'[r] # runs[r] => Rank(runs'[r]) < Rank(runs[r])]_vars

\* a run used up every retry of the download and ended Failed
W29_ExhaustedAndEnded ==
    \E r \in Runs :
        /\ runs[r].pc = "done" /\ runs[r].result = "Failed"
        /\ MAX_RETRIES = 2 /\ runs[r].dlAttempts = 3


\* C30: GET /health says 'running' only when a launched engine that nobody
\* has closed or is closing stands behind globalBrowser, and 'not
\* initialized' otherwise, also while a restart is closing the old engine.
C30_HealthTruthful ==
    /\ health.browser = "running" => Serving(globalBrowser)
    /\ (\E k \in Restarts : restart[k].pc = "closing") =>
          health.browser = "not initialized"

\* C31: a POST /processreport whose body is empty, or in which neither
\* latest_message.id nor body.latest_message.id is found, is answered with
\* one 400 response and starts no pipeline run: processDownloadAsync is not
\* called, no request goes to the message API, no temp directory is made
\* and no browser or context is asked for.
C31_InvalidRequestRejected ==
    /\ \A body \in Payloads :
         (~requestData(body) \/ (body.latest = "" /\ body.nested = "")) <=>
             (~readRequest(body).data \/ readRequest(body).messageId = "")
    /\ readRequest(PayEmptyArray) = ReqEmpty /\ readRequest(PayNoId) = ReqNoId
    /\ readRequest(PayTop) = ReqPlain /\ readRequest(PayBoth) = ReqPlain
    /\ readRequest(PayNested) = ReqWithHook
    /\ \A r \in Runs :
         (/\ runs[r].pc \notin {"idle", "unused"}
          /\ ~runs[r].request.data \/ runs[r].request.messageId = "")
         => /\ runs[r].pc = "rejected"
            /\ Len(runs[r].responses) = 1 /\ runs[r].responses[1].status = 400
            /\ ~runs[r].started /\ runs[r].fetches = 0
            /\ ~runs[r].tempDir /\ ~runs[r].dirExists
            /\ runs[r].browser = 0 /\ runs[r].context = "undef"

\* a request with a conversation id and a webhookUrl but no message id has
\* been turned down
W31_NoIdTurnedDown ==
    \E r \in Runs :
        /\ runs[r].request = ReqNoId
        /\ runs[r].pc = "rejected"
        /\ runs[r].responses = <<BadRequest("Missing message ID")>>

\* C32: a run whose browser.newContext or context.newPage failed ends Failed
\* without a download attempt and without a relay POST; when it has ended its
\* temp directory is removed and the context it opened is closed; and the
\* step on which it fails changes no other run and not the engine.
C32_ContextFailureContained ==
    /\ [](\A r \in Runs :
            runs[r].error = "EngineUnavailable" =>
                /\ runs[r].result = "Failed"
                /\ runs[r].dlAttempts = 0 /\ runs[r].posts = 0
                /\ runs[r].pc = "done" =>
                      /\ ~runs[r].dirExists /\ runs[r].dirRemovals = 1
                      /\ runs[r].context \in {"undef", "closed"}
                      /\ runs[r].context = "closed" => runs[r].ctxCloses = 1)
    /\ [][\A r \in Runs :
            runs[r].error # "EngineUnavailable"
                /\ runs'[r].error = "EngineUnavailable" =>
                    /\ \A q \in Runs \ {r} : runs'[q] = runs[q]
                    /\ globalBrowser' = globalBrowser /\ browsers' = browsers]_vars

\* context.newPage failed in one run, which closed the context it had opened
\* and removed its directory, while another run delivered its report
W32_PageFailedOtherDelivered ==
    \E r, q \in Runs :
        /\ runs[r].pc = "done" /\ runs[r].error = "EngineUnavailable"
        /\ runs[r].context = "closed" /\ runs[r].page = "undef"
        /\ ~runs[r].dirExists /\ runs[r].dirRemovals = 1
        /\ runs[q].pc = "done" /\ runs[q].result = "Succeeded"

\* C33: the engine initBrowser returns to a run is never one that a
\* POST /restart-browser is closing or has closed: on the step on which a
\* run's initBrowser call returns at once (the run goes from the message fetch
\* to fs.mkdir), the instance it is handed is open.
C33_NeverClosingEngine ==
    [][\A r \in Runs :
         runs[r].pc = "fetch" /\ runs'[r].pc = "mkdir" =>
             browsers'[runs'[r].browser] \notin {"closing", "closed"}]_vars

\* the listener of page.waitForEvent('download') is waiting when the i-th
\* operation of the log is issued: it was registered before and its attempt
\* has not ended since (by the event followed by a failure, or by the timeout)
Armed(log, i) ==
    \E j \in 1..(i - 1) :
        /\ log[j].op = "waitForEvent"
        /\ \A m \in (j + 1)..(i - 1) : log[m].op # "failed"

\* C34: every page.goto and every page.reload of downloadWithRetry is issued
\* while a download listener is armed, the reload between a failed attempt
\* and the next one included.
C34_TriggersUnderListener ==
    \A i \in DOMAIN call.log :
        call.log[i].op \in {"goto", "reload"} => Armed(call.log, i)

\* C35: a run that ends Succeeded has had exactly one relay POST return
\* successfully; no run has more than one; and once a POST of a run has
\* returned successfully that run issues no further POST.
C35_OneSuccessfulPost ==
    /\ [](\A r \in Runs :
            /\ runs[r].delivered <= 1
            /\ runs[r].result = "Succeeded" <=> runs[r].delivered = 1
            /\ runs[r].delivered <= runs[r].posts)
    /\ [][\A r \in Runs :
            runs[r].delivered >= 1 => runs'[r].posts = runs[r].posts]_vars

\* a run delivered on its second POST, after the first one had failed, and
\* has ended
W35_DeliveredOnRetry ==
    \E r \in Runs :
        /\ runs[r].pc = "done" /\ runs[r].result = "Succeeded"
        /\ runs[r].posts = 2 /\ runs[r].delivered = 1

\* C36: the retry counts a successful run reports are the numbers of failed
\* download attempts and of failed relay POSTs that came before its success.
C36_ReportedRetriesTrue ==
    \A r \in Runs :
        runs[r].result = "Succeeded" =>
            /\ runs[r].reported.downloadRetries = runs[r].dlFailures
            /\ runs[r].reported.webhookRetries = runs[r].posts - runs[r].delivered

C38_FirstOccurrence ==
    extracted # Pending /\ bodyOf(messageData) # <<>> =>
        LET body == bodyOf(messageData)
            c == matchGetJobFile(body)
            d == matchPdf(body)
        IN  matchHref(body) = <<>> /\ matchLabeled(body) = <<>> =>
                /\ c # <<>> => extracted = Returned(decodeAmp(c[1]))
                /\ c = <<>> /\ d # <<>> => extracted = Returned(decodeAmp(d[1]))

====
